---------------------------- MODULE Spec2Model ----------------------------
(***************************************************************************)
(* A model of armavita-meta-ads-mcp:                                       *)
(*   core/auth_state.py            TokenInfo, AuthManager, OAuth exchange  *)
(*   core/oauth_callback_server.py the local OAuth callback server         *)
(*   core/auth_tools.py            the interactive login                   *)
(*   core/graph_client.py          make_api_request, meta_api_tool         *)
(*   core/ad_tools.py              page discovery, ad previews             *)
(*   core/duplication_tools.py     the clone tools                         *)
(*                                                                         *)
(* The specifications share the module's variables:                        *)
(*   Spec          the token store: every handler of auth_state.py is one  *)
(*                 action, time passes by Tick, the process can restart.   *)
(*   ExchangeSpec  the two token exchanges and the OAuth completion over   *)
(*                 every shape of token endpoint response.                 *)
(*   ServerSpec    the callback server's life cycle: start, shutdown, the  *)
(*                 listener thread, the watchdog timer, /callback.         *)
(*   LoginSpec     the login flow waiting for the callback.                *)
(*   RestartSpec   the callback server started again after a shutdown.     *)
(*   DiscoverySpec the lookups of the pages an ad account can use.         *)
(*   PreviewSpec   list_ad_previews and its retry with an ad format.       *)
(*   WrapperSpec   the meta_api_tool wrapper around a tool body.           *)
(*   SanitizeSpec  the payloads make_api_request returns.                  *)
(*   CallbackSpec  ServerSpec with more than one /callback request.        *)
(*   TeardownSpec  ServerSpec with the fairness of threads that keep       *)
(*                 running.                                                *)
(*   DuplicationSpec the clone tools and the answers of the copy edge.     *)
(*   PersistSpec   _store_token and invalidate_token statement by          *)
(*                 statement, on two threads.                              *)
(*   RequestSpec   the token's way from a tool call to a Graph request.    *)
(***************************************************************************)
EXTENDS Integers, Sequences, FiniteSets, TLC

(***************************************************************************)
(* Python values that cross a JSON boundary are tagged, so that None, an   *)
(* int and a str can be told apart the way the code's `or`, `not`, int()   *)
(* and len() tell them apart.  Absent is a key a dict does not hold.       *)
(***************************************************************************)
None == [t |-> "None"]
Absent == [t |-> "absent"]
PyInt(n) == [t |-> "int", v |-> n]
PyStr(s) == [t |-> "str", v |-> s]
Raised == [t |-> "raise"]

\* bool(value) for the tagged values.
Truthy(value) ==
    CASE value.t = "int" -> value.v # 0
      [] value.t = "str" -> value.v # ""
      [] OTHER -> FALSE

\* Python's `a or b`.
PyOr(a, b) == IF Truthy(a) THEN a ELSE b

\* dict.get(key, default) on a field that may be Absent.
Get(field, default) == IF field = Absent THEN default ELSE field

\* The decimal strings the model's payloads use, as int() reads them.
DigitStrings == <<"1", "2", "3", "4", "5", "6", "7", "8", "9">>

\* int(value): the parsed number as PyInt, or Raised (TypeError, ValueError).
ParseInt(value) ==
    CASE value.t = "int" -> value
      [] value.t = "str" ->
           IF \E i \in DOMAIN DigitStrings : DigitStrings[i] = value.v
           THEN PyInt(CHOOSE i \in DOMAIN DigitStrings : DigitStrings[i] = value.v)
           ELSE IF value.v = "0" THEN PyInt(0) ELSE Raised
      [] OTHER -> Raised

(***************************************************************************)
(* Bounds of the model.                                                    *)
(***************************************************************************)
\* The clock runs from 1 to MaxTime (seconds since the epoch, scaled).
MaxTime == 3

\* Listener threads started, direct shutdown calls and /callback requests
\* received in one run of ServerSpec.
MaxListeners == 1
MaxShutdownCalls == 1
MaxRequests == 1
\* Starts of a new server after the first one was shut down (RestartSpec).
MaxRestarts == 1
\* Rows in the data list of one Graph answer (DiscoverySpec).
MaxRows == 2
\* Query parameters of one URL and nesting depth of a payload (SanitizeSpec).
MaxParams == 2
MaxDepth == 2
\* /callback requests received by one server (CallbackSpec).
MaxCallbacks == 2
\* Calls of _store_token and of invalidate_token (PersistSpec).
MaxStores == 2
MaxInvalidations == 2

(***************************************************************************)
(* The values the environment supplies.                                    *)
(***************************************************************************)
ShortTok == "short_token_12345678901234567890"
LongTok == "long_token_12345678901234567890"
DiskTok == "cache_token_12345678901234567890"
EnvTok == "env_token_12345678901234567890"
TinyTok == "tiny_token"

\* The length below which a token counts as malformed.
MinTokenLen == 20

\* Graph error codes on which make_api_request invalidates the token.
AuthCodesWithout10 == {190, 102}

AuthErrorCodes == {190, 102, 10}

VARIABLES
    proc,                   \* "boot": module not yet imported; "up": running
    now,                    \* int(time.time())
    token_info,             \* auth_manager.token_info: None or a TokenInfo
    cache_file,             \* token_cache.json: Absent, garbage or a JSON object
    needs_authentication,   \* auth_state.needs_authentication
    app_id,                 \* meta_config.get_app_id()
    META_APP_SECRET,        \* os.environ["META_APP_SECRET"], "" when unset
    META_ACCESS_TOKEN,      \* os.environ["META_ACCESS_TOKEN"], "" when unset
    op,                     \* the operation that ran last: its name, its arguments
    ret,                    \* what it returned
    calls,                  \* the calls it made, in order: [fn, ret]
    auth_error_seen         \* history: an auth error invalidated the token and
                            \* no OAuth completion has stored one since

VARIABLES
    token_container,        \* oauth_callback_server.token_container
    _callback_lock,         \* TRUE while a thread is inside `with _callback_lock`
    _callback_thread,       \* 0: None, else a listener thread
    _callback_httpd,        \* 0: None, else the HTTPServer of that listener
    _callback_port,         \* 0: None, else a port
    _shutdown_timer,        \* 0: None, else a timer
    listeners,              \* every listener thread started so far
    timers,                 \* every watchdog timer started so far: "armed", or
                            \* "spent" once it has fired or been cancelled, and
                            \* the time it is due
    shutdown_running,       \* the call of shutdown_callback_server inside the lock,
                            \* and the time it reached the step it is at
    shutdown_waiting,       \* spawned shutdown threads waiting for the lock, by origin
    shutdown_calls,         \* direct calls of shutdown_callback_server so far
    requests,               \* /callback requests received so far
    busy_ports,             \* ports other programs hold
    META_ADS_DISABLE_CALLBACK_SERVER,
    hist                    \* history: ports returned, threads and timers started
                            \* since a shutdown last cleared the handles; shutdowns
                            \* completed since the last start

serverVars == <<token_container, _callback_lock, _callback_thread, _callback_httpd,
                _callback_port, _shutdown_timer, listeners, timers, shutdown_running,
                shutdown_waiting, shutdown_calls, requests, busy_ports,
                META_ADS_DISABLE_CALLBACK_SERVER, hist>>

VARIABLES
    login,                  \* the call of auth_state.login(): where it stands, the
                            \* time its sleep ends, its deadline, what it printed
    discovery,              \* the page discovery in progress: the lookup it is
                            \* at, its pages, failures and seen_ids so far, and
                            \* (history) the ids each lookup's answer held and
                            \* how each lookup's requests ended
    persist                 \* the two threads that touch the token store: where
                            \* the callback thread stands in _store_token, where
                            \* the tool call stands in invalidate_token, and how
                            \* many of each have been started

authVars == <<proc, now, token_info, cache_file, needs_authentication, app_id,
              META_APP_SECRET, META_ACCESS_TOKEN, op, ret, calls, auth_error_seen>>

(***************************************************************************)
(* TokenInfo                                                               *)
(***************************************************************************)
\* _coerce_expires_in: None, or a positive int.
_coerce_expires_in(value) ==
    IF value = None THEN None
    ELSE LET parsed == ParseInt(value) IN
         IF parsed = Raised THEN None
         ELSE IF parsed.v > 0 THEN parsed ELSE None

\* TokenInfo(...) with __post_init__: a created_at of 0 becomes the clock.
TokenInfo(meta_access_token, expires_in, created_at) ==
    [t |-> "TokenInfo",
     meta_access_token |-> meta_access_token,
     expires_in |-> expires_in,
     created_at |-> IF created_at = 0 THEN now ELSE created_at]

\* TokenInfo.is_expired.
IsExpiredInclusive(ti) ==
    IF ~Truthy(ti.expires_in) THEN FALSE
    ELSE now >= ti.created_at + ti.expires_in.v

is_expired(ti) ==
    IF ~Truthy(ti.expires_in) THEN FALSE
    ELSE now > ti.created_at + ti.expires_in.v

\* TokenInfo.serialize, as json.dumps writes it.
serialize(ti) ==
    [t |-> "json",
     meta_access_token |-> ti.meta_access_token,
     access_token |-> Absent,
     expires_in |-> ti.expires_in,
     created_at |-> PyInt(ti.created_at)]

\* TokenInfo.deserialize: a TokenInfo, or Raised when int(created_at) raises.
deserialize(data) ==
    LET created == ParseInt(Get(data.created_at, PyInt(now))) IN
    IF created = Raised THEN Raised
    ELSE TokenInfo(PyOr(Get(data.meta_access_token, None),
                        Get(data.access_token, PyStr(""))),
                   _coerce_expires_in(Get(data.expires_in, None)),
                   created.v)

\* len(token) < 20 raises TypeError on anything but a str.
LenRaises(value) == value.t # "str"
TooShort(value) == Len(value.v) < MinTokenLen


(***************************************************************************)
(* AuthManager                                                             *)
(***************************************************************************)
\* What _load_cached_token leaves: the token in memory and the file on disk.
Discarded ==
    [token_info |-> None, cache_file |-> Absent, calls |-> <<[fn |-> "unlink", ret |-> None]>>]

NotFound(file) == [token_info |-> None, cache_file |-> file, calls |-> <<>>]

Loaded(token, file) == [token_info |-> token, cache_file |-> file, calls |-> <<>>]

LoadKeepsExpired(file) ==
    IF file = Absent THEN NotFound(file)
    ELSE IF file.t = "garbage" THEN Discarded
    ELSE LET token == deserialize(file) IN
         IF token = Raised THEN Discarded
         ELSE IF ~Truthy(token.meta_access_token) THEN Discarded
         ELSE IF LenRaises(token.meta_access_token) THEN Discarded
         ELSE IF TooShort(token.meta_access_token) THEN Discarded
         ELSE Loaded(token, file)

_load_cached_token(file) ==
    IF file = Absent THEN NotFound(file)
    ELSE IF file.t = "garbage" THEN Discarded            \* json.loads raises
    ELSE LET token == deserialize(file) IN
         IF token = Raised THEN Discarded
         ELSE IF ~Truthy(token.meta_access_token) THEN Discarded
         ELSE IF LenRaises(token.meta_access_token) THEN Discarded
         ELSE IF TooShort(token.meta_access_token) \/ is_expired(token)
              THEN Discarded
         ELSE Loaded(token, file)

\* AuthManager.get_access_token, on the token in memory.
GetIgnoresExpiry(ti) ==
    IF ti = None THEN None ELSE ti.meta_access_token

get_access_token(ti) ==
    IF ti = None \/ is_expired(ti) THEN None ELSE ti.meta_access_token

\* AuthManager._persist_token: the file it leaves.
_persist_token(ti, file) ==
    IF ti = None THEN file ELSE serialize(ti)

(***************************************************************************)
(* The OAuth token endpoint                                                *)
(***************************************************************************)
\* What requests.get can do: raise, or answer with a status and a JSON body.
Exception == [kind |-> "exception"]
Http(status, access_token, meta_access_token, expires_in) ==
    [kind |-> "http", status |-> status,
     body |-> [access_token |-> access_token,
               meta_access_token |-> meta_access_token,
               expires_in |-> expires_in]]

\* Answers whose body carries no usable token.
NoTokenResponses ==
    {Http(200, a, m, PyInt(1)) : a \in {Absent, None, PyStr("")},
                                 m \in {Absent, PyStr("")}}

\* Answers to the token request for `tok`, every shape the code tells apart.
TokenResponses(tok) ==
    {Exception, Http(400, PyStr(tok), Absent, PyInt(1)),
     Http(200, PyStr(TinyTok), Absent, Absent)}
    \cup NoTokenResponses
    \cup {Http(200, PyStr(tok), Absent, e) :
             e \in {Absent, PyInt(0), PyInt(1), PyStr("never")}}
    \cup {Http(200, a, PyStr(tok), PyInt(1)) : a \in {Absent, PyStr("")}}

\* The answers that lead to different stored tokens.
CoreResponses(tok) ==
    {Exception,
     Http(200, PyStr(tok), Absent, Absent),
     Http(200, PyStr(tok), Absent, PyInt(1))}

\* exchange_code_for_short_lived, given the endpoint's answer to its request.
ShortSkipsTokenCheck(resp) ==
    IF app_id = "" \/ META_APP_SECRET = "" THEN None
    ELSE IF resp.kind = "exception" THEN None
    ELSE IF resp.status # 200 THEN None
    ELSE TokenInfo(PyOr(Get(resp.body.access_token, None),
                        Get(resp.body.meta_access_token, None)),
                   _coerce_expires_in(Get(resp.body.expires_in, None)), 0)

exchange_code_for_short_lived(resp) ==
    IF app_id = "" \/ META_APP_SECRET = "" THEN None
    ELSE IF resp.kind = "exception" THEN None
    ELSE IF resp.status # 200 THEN None
    ELSE LET token == PyOr(Get(resp.body.access_token, None),
                           Get(resp.body.meta_access_token, None)) IN
         IF ~Truthy(token) THEN None
         ELSE TokenInfo(token, _coerce_expires_in(Get(resp.body.expires_in, None)), 0)

\* exchange_token_for_long_lived, given the endpoint's answer to its request.
exchange_token_for_long_lived(resp) ==
    IF app_id = "" \/ META_APP_SECRET = "" THEN None
    ELSE IF resp.kind = "exception" THEN None
    ELSE IF resp.status # 200 THEN None
    ELSE LET new_token == PyOr(Get(resp.body.access_token, None),
                               Get(resp.body.meta_access_token, None)) IN
         IF ~Truthy(new_token) THEN None
         ELSE TokenInfo(new_token, _coerce_expires_in(Get(resp.body.expires_in, None)), 0)

(***************************************************************************)
(* Token life cycle                                                        *)
(***************************************************************************)
Call(fn, result) == [fn |-> fn, ret |-> result]

\* AuthManager.invalidate_token: what it leaves.
invalidate_token ==
    [token_info |-> None, needs_authentication |-> TRUE, cache_file |-> Absent]

\* _store_token: what it leaves, and the hook calls it made.
StoreAlwaysPersists(final_token, persist_token) ==
    [token_info |-> final_token,
     cache_file |-> _persist_token(final_token, cache_file),
     needs_authentication |-> FALSE,
     calls |-> <<Call("_persist_token", None)>>]

_store_token(final_token, persist_token) ==
    [token_info |-> final_token,
     cache_file |-> IF persist_token THEN _persist_token(final_token, cache_file)
                    ELSE cache_file,
     needs_authentication |-> FALSE,
     calls |-> IF persist_token THEN <<Call("_persist_token", None)>> ELSE <<>>]

ExchangeFailed ==
    [success |-> FALSE,
     error |-> PyStr("authorization_code_exchange_failed"),
     token_info |-> None,
     used_long_lived_token |-> FALSE]

\* complete_oauth_from_auth_code: its result, the state it leaves, its calls.
\* short_resp and long_resp are the token endpoint's answers to the two requests.
CompleteLongFirst(persist_token, short_resp, long_resp) ==
    LET short_token_info == exchange_code_for_short_lived(short_resp)
        long_token_info == exchange_token_for_long_lived(long_resp)
    IN  IF short_token_info = None
        THEN [ret |-> ExchangeFailed,
              token_info |-> token_info,
              cache_file |-> cache_file,
              needs_authentication |-> needs_authentication,
              calls |-> <<Call("exchange_token_for_long_lived", long_token_info),
                          Call("exchange_code_for_short_lived", None)>>]
        ELSE LET final_token == IF long_token_info # None THEN long_token_info
                                ELSE short_token_info
                 stored == _store_token(final_token, persist_token)
             IN  [ret |-> [success |-> TRUE,
                           error |-> None,
                           token_info |-> final_token,
                           used_long_lived_token |-> long_token_info # None],
                  token_info |-> stored.token_info,
                  cache_file |-> stored.cache_file,
                  needs_authentication |-> stored.needs_authentication,
                  calls |-> <<Call("exchange_token_for_long_lived", long_token_info),
                              Call("exchange_code_for_short_lived", short_token_info)>>
                            \o stored.calls]

CompleteLongFatal(persist_token, short_resp, long_resp) ==
    LET short_token_info == exchange_code_for_short_lived(short_resp) IN
    IF short_token_info = None
    THEN [ret |-> ExchangeFailed,
          token_info |-> token_info,
          cache_file |-> cache_file,
          needs_authentication |-> needs_authentication,
          calls |-> <<Call("exchange_code_for_short_lived", None)>>]
    ELSE LET long_token_info == exchange_token_for_long_lived(long_resp)
             stored == _store_token(long_token_info, persist_token)
         IN  [ret |-> [success |-> TRUE,
                       error |-> None,
                       token_info |-> long_token_info,
                       used_long_lived_token |-> long_token_info # None],
              token_info |-> stored.token_info,
              cache_file |-> stored.cache_file,
              needs_authentication |-> stored.needs_authentication,
              calls |-> <<Call("exchange_code_for_short_lived", short_token_info),
                          Call("exchange_token_for_long_lived", long_token_info)>>
                        \o stored.calls]

complete_oauth_from_auth_code(persist_token, short_resp, long_resp) ==
    LET short_token_info == exchange_code_for_short_lived(short_resp) IN
    IF short_token_info = None
    THEN [ret |-> ExchangeFailed,
          token_info |-> token_info,
          cache_file |-> cache_file,
          needs_authentication |-> needs_authentication,
          calls |-> <<Call("exchange_code_for_short_lived", None)>>]
    ELSE LET long_token_info == exchange_token_for_long_lived(long_resp)
             final_token == IF long_token_info # None THEN long_token_info
                            ELSE short_token_info
             stored == _store_token(final_token, persist_token)
         IN  [ret |-> [success |-> TRUE,
                       error |-> None,
                       token_info |-> final_token,
                       used_long_lived_token |-> long_token_info # None],
              token_info |-> stored.token_info,
              cache_file |-> stored.cache_file,
              needs_authentication |-> stored.needs_authentication,
              calls |-> <<Call("exchange_code_for_short_lived", short_token_info),
                          Call("exchange_token_for_long_lived", long_token_info)>>
                        \o stored.calls]

\* get_current_access_token: what it returns, and whether it invalidates.
get_current_access_token ==
    IF META_ACCESS_TOKEN # ""
    THEN IF Len(META_ACCESS_TOKEN) < MinTokenLen
         THEN [ret |-> None, invalidates |-> FALSE]
         ELSE [ret |-> PyStr(META_ACCESS_TOKEN), invalidates |-> FALSE]
    ELSE IF app_id = "" \/ app_id = "YOUR_META_APP_ID"
    THEN [ret |-> None, invalidates |-> FALSE]
    ELSE LET token == get_access_token(token_info) IN
         IF Truthy(token) /\ Len(token.v) >= MinTokenLen
         THEN [ret |-> token, invalidates |-> FALSE]
         ELSE [ret |-> None, invalidates |-> Truthy(token)]


vars == <<authVars, serverVars, login, discovery, persist>>

(***************************************************************************)
(* Spec: the token store.                                                  *)
(***************************************************************************)
\* token_cache.json as the process can find it at start: written by an
\* earlier run, by an older version (access_token, numbers as strings), or
\* damaged.
CacheJson(meta_access_token, access_token, expires_in, created_at) ==
    [t |-> "json",
     meta_access_token |-> meta_access_token,
     access_token |-> access_token,
     expires_in |-> expires_in,
     created_at |-> created_at]

Garbage == [t |-> "garbage"]

ValidCacheFile == CacheJson(PyStr(DiskTok), Absent, PyInt(1), PyInt(1))

InitialCacheFiles ==
    {Absent, Garbage, ValidCacheFile,
     CacheJson(PyStr(DiskTok), Absent, None, PyInt(1)),
     CacheJson(PyStr(DiskTok), Absent, PyInt(0), PyInt(1)),
     CacheJson(PyStr(DiskTok), Absent, PyInt(-1), PyInt(1)),
     CacheJson(PyStr(DiskTok), Absent, PyStr("soon"), PyInt(1)),
     CacheJson(Absent, PyStr(DiskTok), PyStr("1"), Absent),
     CacheJson(PyStr(DiskTok), Absent, PyInt(1), PyStr("yesterday")),
     CacheJson(PyStr(DiskTok), Absent, PyInt(1), None),
     CacheJson(PyStr(TinyTok), Absent, None, PyInt(1)),
     CacheJson(None, None, None, PyInt(1)),
     CacheJson(Absent, Absent, Absent, Absent),
     CacheJson(PyInt(7), Absent, None, PyInt(1))}

\* META_APP_ID (as meta_config resolves it), META_APP_SECRET, META_ACCESS_TOKEN.
Configured == <<"1234567890", "app_secret", "">>

Environments ==
    {Configured,
     <<"1234567890", "app_secret", EnvTok>>,
     <<"1234567890", "app_secret", TinyTok>>,
     <<"YOUR_META_APP_ID", "app_secret", "">>,
     <<"", "app_secret", "">>,
     <<"1234567890", "", "">>}

\* The shared callback state as reset_token_container leaves it.
reset_token_container ==
    [token |-> None, auth_code |-> None, redirect_uri |-> None,
     status |-> "pending", error |-> None, timestamp |-> None]

\* No shutdown call is inside the lock.
Idle == [origin |-> "none", pc |-> "idle", httpd |-> 0, since |-> 0]

\* Neither thread is inside the token store.
NoPersist ==
    [store |-> "idle", token |-> None, text |-> None, invalidate |-> "idle",
     stores |-> 0, invalidations |-> 0, raised |-> FALSE]

\* No page discovery has been started.
NoDiscovery ==
    [pc |-> "idle", pages |-> <<>>, failures |-> <<>>, seen_ids |-> {},
     produced |-> {}, outcomes |-> <<>>]

\* login() has not been called.
NoLogin == [pc |-> "idle", port |-> 0, wake |-> 0, deadline |-> 0, printed |-> "nothing"]

NoHistory == [ports |-> {}, starts |-> 0, threads |-> 0, timers |-> 0, shutdowns |-> 0]

\* The module's globals as the import leaves them.
ServerIdle ==
    /\ token_container = reset_token_container
    /\ _callback_lock = FALSE
    /\ _callback_thread = 0
    /\ _callback_httpd = 0
    /\ _callback_port = 0
    /\ _shutdown_timer = 0
    /\ listeners = <<>>
    /\ timers = <<>>
    /\ shutdown_running = Idle
    /\ shutdown_waiting = [timer |-> 0, handler |-> 0]
    /\ shutdown_calls = 0
    /\ requests = 0
    /\ hist = NoHistory

Init ==
    /\ proc = "boot"
    /\ now = 1
    /\ token_info = None
    /\ needs_authentication = FALSE
    /\ \E e \in Environments, file \in InitialCacheFiles :
          /\ e = Configured \/ file \in {Absent, ValidCacheFile}
          /\ cache_file = file
          /\ app_id = e[1]
          /\ META_APP_SECRET = e[2]
          /\ META_ACCESS_TOKEN = e[3]
    /\ op = [name |-> "none"]
    /\ ret = None
    /\ calls = <<>>
    /\ auth_error_seen = FALSE
    /\ ServerIdle
    /\ login = NoLogin
    /\ discovery = NoDiscovery
    /\ persist = NoPersist
    /\ busy_ports = {}
    /\ META_ADS_DISABLE_CALLBACK_SERVER = FALSE

envVars == <<app_id, META_APP_SECRET, META_ACCESS_TOKEN>>

\* Module import: auth_manager = AuthManager(META_APP_ID).
Construct ==
    /\ proc = "boot"
    /\ proc' = "up"
    /\ LET loaded == _load_cached_token(cache_file) IN
          /\ token_info' = loaded.token_info
          /\ cache_file' = loaded.cache_file
    /\ needs_authentication' = FALSE
    /\ op' = [name |-> "__init__"]
    /\ ret' = None
    /\ calls' = _load_cached_token(cache_file).calls
    /\ UNCHANGED <<now, envVars, auth_error_seen, serverVars>>

\* The process ends; the next one starts from the file it left.
Exit ==
    /\ proc = "up"
    /\ proc' = "boot"
    /\ token_info' = None
    /\ needs_authentication' = FALSE
    /\ op' = [name |-> "exit"]
    /\ ret' = None
    /\ calls' = <<>>
    /\ UNCHANGED <<now, cache_file, envVars, auth_error_seen, serverVars>>

\* A second passes.
Tick ==
    /\ now < MaxTime
    /\ now' = now + 1
    /\ op' = [name |-> "tick"]
    /\ ret' = None
    /\ calls' = <<>>
    /\ UNCHANGED <<proc, token_info, cache_file, needs_authentication, envVars,
                   auth_error_seen, serverVars>>

\* complete_oauth_from_auth_code, the token endpoint answering from the given
\* sets; `traced` keeps the two answers in op.
CompleteOAuthOn(ShortResponses, LongResponses, traced) ==
    /\ proc = "up"
    /\ \E persist_token \in BOOLEAN, short_resp \in ShortResponses :
       \E long_resp \in IF exchange_code_for_short_lived(short_resp) = None
                        THEN {Exception}
                        ELSE LongResponses :
          LET done == complete_oauth_from_auth_code(persist_token, short_resp, long_resp)
          IN  /\ token_info' = done.token_info
              /\ cache_file' = done.cache_file
              /\ needs_authentication' = done.needs_authentication
              /\ op' = [name |-> "complete_oauth_from_auth_code",
                        persist_token |-> persist_token,
                        resps |-> IF traced THEN <<short_resp, long_resp>> ELSE <<>>]
              /\ ret' = done.ret
              /\ calls' = done.calls
              /\ auth_error_seen' = (auth_error_seen /\ ~done.ret.success)
    /\ UNCHANGED <<proc, now, envVars, serverVars>>

CompleteOAuth ==
    CompleteOAuthOn(CoreResponses(ShortTok) \cup {Http(200, PyStr(TinyTok), Absent, Absent)},
                    CoreResponses(LongTok), FALSE)

\* A direct call of AuthManager.get_access_token.
GetAccessToken ==
    /\ proc = "up"
    /\ op' = [name |-> "get_access_token"]
    /\ ret' = get_access_token(token_info)
    /\ calls' = <<>>
    /\ UNCHANGED <<proc, now, token_info, cache_file, needs_authentication, envVars,
                   auth_error_seen, serverVars>>

\* A direct call of TokenInfo.is_expired on the stored token.
IsExpired ==
    /\ proc = "up"
    /\ token_info # None
    /\ op' = [name |-> "is_expired"]
    /\ ret' = is_expired(token_info)
    /\ calls' = <<>>
    /\ UNCHANGED <<proc, now, token_info, cache_file, needs_authentication, envVars,
                   auth_error_seen, serverVars>>

\* A tool call's token lookup.
GetCurrentAccessToken ==
    /\ proc = "up"
    /\ LET got == get_current_access_token
           left == IF got.invalidates THEN invalidate_token
                   ELSE [token_info |-> token_info,
                         needs_authentication |-> needs_authentication,
                         cache_file |-> cache_file]
       IN  /\ op' = [name |-> "get_current_access_token"]
           /\ ret' = got.ret
           /\ calls' = IF got.invalidates THEN <<Call("invalidate_token", None)>>
                       ELSE <<>>
           /\ token_info' = left.token_info
           /\ needs_authentication' = left.needs_authentication
           /\ cache_file' = left.cache_file
    /\ UNCHANGED <<proc, now, envVars, auth_error_seen, serverVars>>

\* AuthManager.clear_token / invalidate_token called directly (a logout).
ClearToken ==
    /\ proc = "up"
    /\ op' = [name |-> "clear_token"]
    /\ ret' = None
    /\ calls' = <<Call("invalidate_token", None)>>
    /\ token_info' = invalidate_token.token_info
    /\ needs_authentication' = invalidate_token.needs_authentication
    /\ cache_file' = invalidate_token.cache_file
    /\ UNCHANGED <<proc, now, envVars, auth_error_seen, serverVars>>

\* Direct calls of the two exchange functions.
ExchangeCodeForShortLived ==
    /\ proc = "up"
    /\ \E resp \in TokenResponses(ShortTok) :
          /\ op' = [name |-> "exchange_code_for_short_lived", resp |-> resp]
          /\ ret' = exchange_code_for_short_lived(resp)
    /\ calls' = <<>>
    /\ UNCHANGED <<proc, now, token_info, cache_file, needs_authentication, envVars,
                   auth_error_seen, serverVars>>

ExchangeTokenForLongLived ==
    /\ proc = "up"
    /\ \E resp \in TokenResponses(LongTok) :
          /\ op' = [name |-> "exchange_token_for_long_lived", resp |-> resp]
          /\ ret' = exchange_token_for_long_lived(resp)
    /\ calls' = <<>>
    /\ UNCHANGED <<proc, now, token_info, cache_file, needs_authentication, envVars,
                   auth_error_seen, serverVars>>

(***************************************************************************)
(* The Graph client's error path (graph_client.make_api_request).          *)
(***************************************************************************)
\* What a Graph request can come back with: a 2xx answer, an HTTP error whose
\* body carries error.code (0: the body carries none), or a transport error.
GraphErrorCodes == {0, 4, 10, 102, 190}

GraphResponses ==
    {[kind |-> "ok"], [kind |-> "exception"]}
    \cup {[kind |-> "http_error", code |-> c] : c \in GraphErrorCodes}

\* Whether make_api_request invalidates the token on this response.
RequestInvalidates(meta_access_token, resp) ==
    /\ meta_access_token # ""
    /\ resp.kind = "http_error"
    /\ resp.code \in AuthErrorCodes

\* A response that carries one of the auth error codes 190, 102, 10.
CarriesAuthError(resp) ==
    resp.kind = "http_error" /\ (resp.code = 190 \/ resp.code = 102 \/ resp.code = 10)

\* The error message of the envelope make_api_request returns ("": a payload).
make_api_request(meta_access_token, resp) ==
    IF meta_access_token = "" THEN "Authentication Required"
    ELSE IF resp.kind = "ok" THEN ""
    ELSE IF resp.kind = "http_error" THEN "HTTP Error"
    ELSE "exception"

MakeApiRequest ==
    /\ proc = "up"
    /\ \E meta_access_token \in {"", EnvTok} :
       \E resp \in IF meta_access_token = "" THEN {[kind |-> "ok"]} ELSE GraphResponses :
          LET left == IF RequestInvalidates(meta_access_token, resp)
                      THEN invalidate_token
                      ELSE [token_info |-> token_info,
                            needs_authentication |-> needs_authentication,
                            cache_file |-> cache_file]
          IN  /\ op' = [name |-> "make_api_request", resp |-> resp,
                        meta_access_token |-> meta_access_token]
              /\ ret' = PyStr(make_api_request(meta_access_token, resp))
              /\ calls' = IF RequestInvalidates(meta_access_token, resp)
                          THEN <<Call("invalidate_token", None)>> ELSE <<>>
              /\ token_info' = left.token_info
              /\ needs_authentication' = left.needs_authentication
              /\ cache_file' = left.cache_file
              /\ auth_error_seen' =
                    (auth_error_seen \/ (meta_access_token # "" /\ CarriesAuthError(resp)))
    /\ UNCHANGED <<proc, now, envVars, serverVars>>

Next ==
    \/ Construct /\ UNCHANGED <<login, discovery, persist>>
    \/ Exit /\ UNCHANGED <<login, discovery, persist>>
    \/ Tick /\ UNCHANGED <<login, discovery, persist>>
    \/ CompleteOAuth /\ UNCHANGED <<login, discovery, persist>>
    \/ GetAccessToken /\ UNCHANGED <<login, discovery, persist>>
    \/ IsExpired /\ UNCHANGED <<login, discovery, persist>>
    \/ GetCurrentAccessToken /\ UNCHANGED <<login, discovery, persist>>
    \/ ClearToken /\ UNCHANGED <<login, discovery, persist>>
    \/ MakeApiRequest /\ UNCHANGED <<login, discovery, persist>>

Spec == Init /\ [][Next]_vars


(***************************************************************************)
(* ExchangeSpec: the two exchange functions and the completion that calls  *)
(* them, on every shape of answer; the answers are kept in op.             *)
(***************************************************************************)
ExchangeInit ==
    /\ proc = "up"
    /\ now = 1
    /\ token_info = None
    /\ cache_file = Absent
    /\ needs_authentication = FALSE
    /\ \E e \in Environments :
          /\ app_id = e[1]
          /\ META_APP_SECRET = e[2]
          /\ META_ACCESS_TOKEN = e[3]
    /\ op = [name |-> "none"]
    /\ ret = None
    /\ calls = <<>>
    /\ auth_error_seen = FALSE
    /\ ServerIdle
    /\ login = NoLogin
    /\ discovery = NoDiscovery
    /\ persist = NoPersist
    /\ busy_ports = {}
    /\ META_ADS_DISABLE_CALLBACK_SERVER = FALSE

CompleteOAuthTraced ==
    CompleteOAuthOn(TokenResponses(ShortTok),
                    {Exception, Http(200, Absent, Absent, PyInt(1)),
                     Http(200, PyStr(LongTok), Absent, Absent)},
                    TRUE)

ExchangeNext ==
    \/ ExchangeCodeForShortLived /\ UNCHANGED <<login, discovery, persist>>
    \/ ExchangeTokenForLongLived /\ UNCHANGED <<login, discovery, persist>>
    \/ CompleteOAuthTraced /\ UNCHANGED <<login, discovery, persist>>

ExchangeSpec == ExchangeInit /\ [][ExchangeNext]_vars


(***************************************************************************)
(* Properties of the token store.                                          *)
(***************************************************************************)
CallsOf(log, fn) == {i \in DOMAIN log : log[i].fn = fn}

\* What the call of `fn` in the log returned (it is called at most once).
ReturnOf(log, fn) == log[CHOOSE i \in DOMAIN log : log[i].fn = fn].ret

IsCompletion(o) == o.name = "complete_oauth_from_auth_code"

\* The expiry rule as the data model states it: expires_in is set and the
\* clock is past created_at + expires_in.
PastExpiry(ti) ==
    /\ ti.expires_in # None
    /\ now > ti.created_at + ti.expires_in.v

\* C1: a completion whose short-lived exchange returned None makes no call of
\* exchange_token_for_long_lived, returns success=false with error
\* authorization_code_exchange_failed and used_long_lived_token=false, and
\* leaves the stored token, the cache file and the needs-authentication flag
\* as they were.
C1_FailedShortExchangeAborts ==
    [][(/\ IsCompletion(op')
        /\ CallsOf(calls', "exchange_code_for_short_lived") # {}
        /\ ReturnOf(calls', "exchange_code_for_short_lived") = None)
       => /\ CallsOf(calls', "exchange_token_for_long_lived") = {}
          /\ ret'.success = FALSE
          /\ ret'.error = PyStr("authorization_code_exchange_failed")
          /\ ret'.used_long_lived_token = FALSE
          /\ token_info' = token_info
          /\ cache_file' = cache_file
          /\ needs_authentication' = needs_authentication]_vars

\* A failed completion that found a stored token, a cache file and the flag set.
C1_Witness ==
    /\ IsCompletion(op)
    /\ ReturnOf(calls, "exchange_code_for_short_lived") = None
    /\ ret.success = FALSE
    /\ token_info # None
    /\ cache_file # Absent
    /\ Len(calls) = 1

\* C2: a completion whose short-lived exchange succeeded returns success=true;
\* if the long-lived exchange failed, used_long_lived_token is false and the
\* stored token is the short-lived one; if it succeeded, used_long_lived_token
\* is true and the stored token is the long-lived one.
C2_LongFailureKeepsShortToken ==
    (/\ IsCompletion(op)
     /\ CallsOf(calls, "exchange_code_for_short_lived") # {}
     /\ ReturnOf(calls, "exchange_code_for_short_lived") # None)
    => LET short == ReturnOf(calls, "exchange_code_for_short_lived")
           long == ReturnOf(calls, "exchange_token_for_long_lived")
       IN  /\ ret.success = TRUE
           /\ CallsOf(calls, "exchange_token_for_long_lived") # {}
           /\ long = None => /\ ret.used_long_lived_token = FALSE
                             /\ token_info = short
                             /\ token_info.meta_access_token \in
                                   {PyStr(ShortTok), PyStr(TinyTok)}
           /\ long # None => /\ ret.used_long_lived_token = TRUE
                             /\ token_info = long
                             /\ token_info.meta_access_token = PyStr(LongTok)

\* The long-lived exchange failed after a short-lived token was obtained.
C2_Witness ==
    /\ IsCompletion(op)
    /\ ret.success = TRUE
    /\ ret.used_long_lived_token = FALSE
    /\ ReturnOf(calls, "exchange_token_for_long_lived") = None
    /\ token_info.meta_access_token = PyStr(ShortTok)

\* C3: a successful completion calls the persistence hook exactly once when
\* persist_token is true and not at all when it is false, and in both cases
\* the needs-authentication flag is clear afterwards.
C3_PersistHookOnce ==
    (IsCompletion(op) /\ ret.success = TRUE)
    => /\ Cardinality(CallsOf(calls, "_persist_token")) =
             (IF op.persist_token THEN 1 ELSE 0)
       /\ needs_authentication = FALSE

\* A successful completion with persist_token false, after an invalidation had
\* deleted the cache file: the token is in memory only.
C3_Witness ==
    /\ IsCompletion(op)
    /\ ret.success = TRUE
    /\ ~op.persist_token
    /\ CallsOf(calls, "_persist_token") = {}
    /\ token_info # None
    /\ cache_file = Absent

\* C4, as claimed: once a Graph response has carried an auth error code, the
\* token is gone from memory and disk and every token lookup of a tool call
\* yields no token, until an OAuth completion stores a token.
C4_LookupYieldsNothing ==
    auth_error_seen
    => /\ token_info = None
       /\ cache_file = Absent
       /\ op.name = "get_current_access_token" => ret = None

\* C4, amended: the same, for a process whose environment sets no
\* META_ACCESS_TOKEN (a token set there is returned by every lookup and is not
\* touched by the invalidation).
C4_LookupYieldsNothingWithoutEnvToken ==
    auth_error_seen
    => /\ token_info = None
       /\ cache_file = Absent
       /\ (op.name = "get_current_access_token" /\ META_ACCESS_TOKEN = "")
             => ret = None

\* A lookup after an auth error, in a configured process that had a token.
C4_Witness ==
    /\ auth_error_seen
    /\ op.name = "get_current_access_token"
    /\ META_ACCESS_TOKEN = ""
    /\ app_id = "1234567890"
    /\ needs_authentication
    /\ ret = None

\* C5: get_access_token never raises; what it returns is the stored token's
\* string when a token is stored and not past its expiry, and None otherwise.
C5_GetAccessToken ==
    op.name = "get_access_token"
    => /\ ret # Raised
       /\ ret # None => /\ token_info # None
                        /\ ret = token_info.meta_access_token
                        /\ ~PastExpiry(token_info)
                        /\ ~is_expired(token_info)
       /\ ret = None => (token_info = None \/ PastExpiry(token_info))

\* A stored token that has expired is withheld.
C5_Witness ==
    /\ op.name = "get_access_token"
    /\ token_info # None
    /\ ret = None

\* C6: is_expired() is true exactly when expires_in is set and the clock is
\* past created_at + expires_in; with expires_in unset it is false.
C6_IsExpired ==
    /\ op.name = "is_expired" => (ret <=> PastExpiry(token_info))
    /\ (proc = "up" /\ token_info # None)
          => /\ is_expired(token_info) <=> PastExpiry(token_info)
             /\ token_info.expires_in = None => ~is_expired(token_info)

\* is_expired() answered true in the first second past the expiry.
C6_Witness ==
    /\ op.name = "is_expired"
    /\ ret = TRUE
    /\ now = token_info.created_at + token_info.expires_in.v + 1

IsExchange(o) ==
    o.name \in {"exchange_code_for_short_lived", "exchange_token_for_long_lived"}

\* A 200 answer whose body holds a token under neither of the two keys the
\* exchange functions read.
LacksToken(resp) ==
    /\ resp.kind = "http"
    /\ resp.body.access_token \in {Absent, None, PyStr("")}
    /\ resp.body.meta_access_token \in {Absent, None, PyStr("")}

storeVars == <<proc, now, token_info, cache_file, needs_authentication, app_id,
               META_APP_SECRET, META_ACCESS_TOKEN, auth_error_seen>>

\* _choose_port's defaults.
StartPort == 8080
Attempts == 10

ProbeRange == StartPort .. (StartPort + Attempts - 1)

\* The ports a bind fails on: held by another program or by a listener's socket.
BoundPorts ==
    busy_ports \cup {listeners[i].port : i \in {j \in DOMAIN listeners : listeners[j].bound}}

\* _choose_port: the first port of the range a probe can bind; 0: RuntimeError.
_choose_port ==
    LET free == ProbeRange \ BoundPorts IN
    IF free = {} THEN 0
    ELSE CHOOSE port \in free : \A other \in free : port <= other

\* f"http://localhost:{port}/callback"
RedirectUri(port) == [t |-> "url", host |-> "localhost", port |-> port, path |-> "/callback"]

\* The watchdog's delay, in seconds.
CALLBACK_SERVER_TIMEOUT == 180

\* threading.Timer(interval, timed_shutdown), started now.
Timer(interval) == [st |-> "armed", due |-> now + interval]

NewListener(port) == [st |-> "starting", port |-> port, bound |-> FALSE, stop |-> FALSE]

\* start_callback_server inside the lock: what it returns and leaves.
StartIgnoresRunning ==
    LET port == _choose_port IN
    IF port = 0
    THEN [ret |-> Raised,
          token_container |-> reset_token_container,
          _callback_thread |-> _callback_thread,
          _callback_port |-> _callback_port,
          _shutdown_timer |-> _shutdown_timer,
          listeners |-> listeners,
          timers |-> timers]
    ELSE [ret |-> PyInt(port),
          token_container |->
              [reset_token_container EXCEPT !.redirect_uri = RedirectUri(port)],
          _callback_thread |-> Len(listeners) + 1,
          _callback_port |-> port,
          _shutdown_timer |-> Len(timers) + 1,
          listeners |-> Append(listeners, NewListener(port)),
          timers |-> Append(timers, Timer(CALLBACK_SERVER_TIMEOUT))]

start_callback_server ==
    IF _callback_port # 0
    THEN [ret |-> PyInt(_callback_port),
          token_container |->
              [reset_token_container EXCEPT !.redirect_uri = RedirectUri(_callback_port)],
          _callback_thread |-> _callback_thread,
          _callback_port |-> _callback_port,
          _shutdown_timer |-> _shutdown_timer,
          listeners |-> listeners,
          timers |-> timers]
    ELSE LET port == _choose_port IN
         IF port = 0
         THEN [ret |-> Raised,
               token_container |-> reset_token_container,
               _callback_thread |-> _callback_thread,
               _callback_port |-> _callback_port,
               _shutdown_timer |-> _shutdown_timer,
               listeners |-> listeners,
               timers |-> timers]
         ELSE [ret |-> PyInt(port),
               token_container |->
                   [reset_token_container EXCEPT !.redirect_uri = RedirectUri(port)],
               _callback_thread |-> Len(listeners) + 1,
               _callback_port |-> port,
               _shutdown_timer |-> Len(timers) + 1,
               listeners |-> Append(listeners, NewListener(port)),
               timers |-> Append(timers, Timer(CALLBACK_SERVER_TIMEOUT))]

\* A call of start_callback_server (by login or AuthManager.authenticate)
\* while fewer than limit listener threads were ever created.
StartCallbackServerUpTo(limit) ==
    /\ op' = [name |-> "start_callback_server"]
    /\ calls' = <<>>
    /\ IF META_ADS_DISABLE_CALLBACK_SERVER
       THEN /\ ret' = Raised
            /\ UNCHANGED <<storeVars, serverVars>>
       ELSE /\ ~_callback_lock
            /\ _callback_port # 0 \/ Len(listeners) < limit
            /\ LET out == start_callback_server IN
                  /\ ret' = out.ret
                  /\ token_container' = out.token_container
                  /\ _callback_thread' = out._callback_thread
                  /\ _callback_port' = out._callback_port
                  /\ _shutdown_timer' = out._shutdown_timer
                  /\ listeners' = out.listeners
                  /\ timers' = out.timers
                  /\ hist' = [ports |-> IF out.ret = Raised THEN hist.ports
                                        ELSE hist.ports \cup {out.ret.v},
                              starts |-> IF out.ret = Raised \/ hist.starts = 2
                                         THEN hist.starts ELSE hist.starts + 1,
                              threads |-> hist.threads + Len(out.listeners) - Len(listeners),
                              timers |-> hist.timers + Len(out.timers) - Len(timers),
                              shutdowns |-> 0]
            /\ UNCHANGED <<storeVars, _callback_lock, _callback_httpd, shutdown_running,
                           shutdown_waiting, shutdown_calls, requests, busy_ports,
                           META_ADS_DISABLE_CALLBACK_SERVER>>

StartCallbackServer == StartCallbackServerUpTo(MaxListeners)

\* _server_loop: HTTPServer(...) binds and the thread publishes the server.
ListenerBind(l) ==
    /\ listeners[l].st = "starting"
    /\ listeners[l].port \notin BoundPorts
    /\ listeners' = [listeners EXCEPT ![l].st = "serving", ![l].bound = TRUE]
    /\ _callback_httpd' = l
    /\ op' = [name |-> "_server_loop"]
    /\ ret' = None
    /\ calls' = <<>>
    /\ UNCHANGED <<storeVars, token_container, _callback_lock, _callback_thread,
                   _callback_port, _shutdown_timer, timers, shutdown_running,
                   shutdown_waiting, shutdown_calls, requests, busy_ports,
                   META_ADS_DISABLE_CALLBACK_SERVER, hist>>

\* _server_loop: the bind raises (the port was taken after the probe); the
\* exception is logged and the thread ends.
ListenerBindFails(l) ==
    /\ listeners[l].st = "starting"
    /\ listeners' = [listeners EXCEPT ![l].st = "exited"]
    /\ busy_ports' = busy_ports \cup
                     (IF listeners[l].port \in BoundPorts THEN {} ELSE {listeners[l].port})
    /\ op' = [name |-> "_server_loop"]
    /\ ret' = None
    /\ calls' = <<>>
    /\ UNCHANGED <<storeVars, token_container, _callback_lock, _callback_thread,
                   _callback_httpd, _callback_port, _shutdown_timer, timers,
                   shutdown_running, shutdown_waiting, shutdown_calls, requests,
                   META_ADS_DISABLE_CALLBACK_SERVER, hist>>

\* serve_forever sees the shutdown request and returns; the thread ends.
ListenerStop(l) ==
    /\ listeners[l].st = "serving"
    /\ listeners[l].stop
    /\ listeners' = [listeners EXCEPT ![l].st = "exited"]
    /\ op' = [name |-> "_server_loop"]
    /\ ret' = None
    /\ calls' = <<>>
    /\ UNCHANGED <<storeVars, token_container, _callback_lock, _callback_thread,
                   _callback_httpd, _callback_port, _shutdown_timer, timers,
                   shutdown_running, shutdown_waiting, shutdown_calls, requests,
                   busy_ports, META_ADS_DISABLE_CALLBACK_SERVER, hist>>

\* _shutdown_async and the watchdog: a new thread that calls shutdown.
Spawned(origin) == [shutdown_waiting EXCEPT ![origin] = @ + 1]

\* The query of a /callback request: error, error_description, code.
Queries ==
    {[error |-> PyStr("access_denied"), error_description |-> None, code |-> None],
     [error |-> PyStr("access_denied"), error_description |-> PyStr("denied"),
      code |-> PyStr("auth_code_1")],
     [error |-> None, error_description |-> None, code |-> None],
     [error |-> None, error_description |-> None, code |-> PyStr("auth_code_1")]}

\* _handle_callback up to the token exchange, while fewer than limit
\* /callback requests have arrived.
HandleCallbackUpTo(l, limit) ==
    /\ listeners[l].st = "serving"
    /\ requests < limit
    /\ requests' = requests + 1
    /\ \E query \in Queries :
          IF Truthy(query.error)
          THEN /\ token_container' =
                     [token_container EXCEPT
                         !.status = "error",
                         !.error = PyOr(query.error_description, query.error),
                         !.timestamp = PyInt(now)]
               /\ shutdown_waiting' = Spawned("handler")
               /\ UNCHANGED listeners
          ELSE IF ~Truthy(query.code)
          THEN /\ token_container' =
                     [token_container EXCEPT
                         !.status = "error",
                         !.error = PyStr("missing_code_or_error"),
                         !.timestamp = PyInt(now)]
               /\ shutdown_waiting' = Spawned("handler")
               /\ UNCHANGED listeners
          ELSE /\ token_container' =
                     [token_container EXCEPT
                         !.auth_code = query.code,
                         !.status = "exchanging",
                         !.error = None,
                         !.timestamp = PyInt(now)]
               /\ listeners' = [listeners EXCEPT ![l].st = "handling"]
               /\ UNCHANGED shutdown_waiting
    /\ op' = [name |-> "_handle_callback"]
    /\ ret' = None
    /\ calls' = <<>>
    /\ UNCHANGED <<storeVars, _callback_lock, _callback_thread, _callback_httpd,
                   _callback_port, _shutdown_timer, timers, shutdown_running,
                   shutdown_calls, busy_ports, META_ADS_DISABLE_CALLBACK_SERVER, hist>>

HandleCallback(l) == HandleCallbackUpTo(l, MaxRequests)

\* The token endpoint's answers to the exchanges a callback starts.
CallbackResponses(tok) == {Exception, Http(200, PyStr(tok), Absent, Absent)}

\* _handle_callback from the token exchange to its return.
FinishCallback(l) ==
    /\ listeners[l].st = "handling"
    /\ \E short_resp \in CallbackResponses(ShortTok),
          long_resp \in CallbackResponses(LongTok) :
          LET result == complete_oauth_from_auth_code(TRUE, short_resp, long_resp) IN
          /\ token_info' = result.token_info
          /\ cache_file' = result.cache_file
          /\ needs_authentication' = result.needs_authentication
          /\ auth_error_seen' = (auth_error_seen /\ ~result.ret.success)
          /\ calls' = result.calls
          /\ token_container' =
                IF result.ret.success
                THEN [token_container EXCEPT
                         !.token = result.ret.token_info.meta_access_token,
                         !.status = "success",
                         !.error = None,
                         !.timestamp = PyInt(now)]
                ELSE [token_container EXCEPT
                         !.status = "error",
                         !.error = result.ret.error,
                         !.timestamp = PyInt(now)]
    /\ listeners' = [listeners EXCEPT ![l].st = "serving"]
    /\ shutdown_waiting' = Spawned("handler")
    /\ op' = [name |-> "_handle_callback"]
    /\ ret' = None
    /\ UNCHANGED <<proc, now, envVars, _callback_lock, _callback_thread, _callback_httpd,
                   _callback_port, _shutdown_timer, timers, shutdown_running,
                   shutdown_calls, requests, busy_ports,
                   META_ADS_DISABLE_CALLBACK_SERVER, hist>>

\* The watchdog timer runs out: timed_shutdown starts on the timer's thread.
TimerFires(t) ==
    /\ timers[t].st = "armed"
    /\ timers' = [timers EXCEPT ![t].st = "spent"]
    /\ shutdown_waiting' = Spawned("timer")
    /\ op' = [name |-> "timed_shutdown"]
    /\ ret' = None
    /\ calls' = <<>>
    /\ UNCHANGED <<storeVars, token_container, _callback_lock, _callback_thread,
                   _callback_httpd, _callback_port, _shutdown_timer, listeners,
                   shutdown_running, shutdown_calls, requests, busy_ports,
                   META_ADS_DISABLE_CALLBACK_SERVER, hist>>

\* shutdown_callback_server: takes the lock, cancels the watchdog and, when a
\* server is published, asks its loop to stop (httpd.shutdown() then blocks).
\* The call comes from a thread spawned by the watchdog or by a handler, or
\* directly from a caller (login's finally block); a caller that waits for
\* the lock is a caller that calls later.
ShutdownAcquire(origin) ==
    /\ ~_callback_lock
    /\ _callback_lock' = TRUE
    /\ IF origin = "caller"
       THEN /\ shutdown_calls < MaxShutdownCalls
            /\ shutdown_calls' = shutdown_calls + 1
            /\ UNCHANGED shutdown_waiting
       ELSE /\ shutdown_waiting[origin] > 0
            /\ shutdown_waiting' = [shutdown_waiting EXCEPT ![origin] = @ - 1]
            /\ UNCHANGED shutdown_calls
    /\ timers' = IF _shutdown_timer # 0 /\ timers[_shutdown_timer].st = "armed"
                 THEN [timers EXCEPT ![_shutdown_timer].st = "spent"]
                 ELSE timers
    /\ _shutdown_timer' = 0
    /\ IF _callback_httpd # 0
       THEN /\ listeners' = [listeners EXCEPT ![_callback_httpd].stop = TRUE]
            /\ shutdown_running' =
                  [origin |-> origin, pc |-> "stopping", httpd |-> _callback_httpd,
                   since |-> now]
       ELSE /\ shutdown_running' = [origin |-> origin, pc |-> "join", httpd |-> 0, since |-> now]
            /\ UNCHANGED listeners
    /\ op' = [name |-> "shutdown_enter"]
    /\ ret' = None
    /\ calls' = <<>>
    /\ UNCHANGED <<storeVars, token_container, _callback_thread, _callback_httpd,
                   _callback_port, requests, busy_ports,
                   META_ADS_DISABLE_CALLBACK_SERVER, hist>>

\* httpd.shutdown() returns once the loop has ended; server_close() then
\* closes the socket of the server the global names at that moment.
ShutdownStopped ==
    /\ shutdown_running.pc = "stopping"
    /\ listeners[shutdown_running.httpd].st = "exited"
    /\ listeners' = IF _callback_httpd # 0
                    THEN [listeners EXCEPT ![_callback_httpd].bound = FALSE]
                    ELSE listeners
    /\ shutdown_running' = [shutdown_running EXCEPT !.pc = "join", !.since = now]
    /\ op' = [name |-> "shutdown_stopped"]
    /\ ret' = None
    /\ calls' = <<>>
    /\ UNCHANGED <<storeVars, token_container, _callback_lock, _callback_thread,
                   _callback_httpd, _callback_port, _shutdown_timer, timers,
                   shutdown_waiting, shutdown_calls, requests, busy_ports,
                   META_ADS_DISABLE_CALLBACK_SERVER, hist>>

\* The join returns (the thread ended or 3 s passed); the thread and server
\* handles are cleared.  The lock does not keep a listener thread from
\* publishing its server between this step and the next.
ShutdownClear ==
    /\ shutdown_running.pc = "join"
    /\ _callback_thread' = 0
    /\ _callback_httpd' = 0
    /\ shutdown_running' = [shutdown_running EXCEPT !.pc = "clearing"]
    /\ op' = [name |-> "shutdown_clear"]
    /\ ret' = None
    /\ calls' = <<>>
    /\ UNCHANGED <<storeVars, token_container, _callback_lock, _callback_port,
                   _shutdown_timer, listeners, timers, shutdown_waiting, shutdown_calls,
                   requests, busy_ports, META_ADS_DISABLE_CALLBACK_SERVER, hist>>

\* The port is cleared and the lock released: shutdown_callback_server returns.
ShutdownFinish ==
    /\ shutdown_running.pc = "clearing"
    /\ _callback_port' = 0
    /\ _callback_lock' = FALSE
    /\ shutdown_running' = Idle
    /\ hist' = [ports |-> {}, starts |-> 0, threads |-> 0, timers |-> 0,
                shutdowns |-> IF hist.shutdowns < 2 THEN hist.shutdowns + 1 ELSE 2]
    /\ op' = [name |-> "shutdown_callback_server", origin |-> shutdown_running.origin]
    /\ ret' = None
    /\ calls' = <<>>
    /\ UNCHANGED <<storeVars, token_container, _callback_thread, _callback_httpd,
                   _shutdown_timer, listeners, timers, shutdown_waiting, shutdown_calls,
                   requests, busy_ports, META_ADS_DISABLE_CALLBACK_SERVER>>

\* The process is up with its token store empty; other programs may hold the
\* first port of the range or all of it.
ServerInit ==
    /\ proc = "up"
    /\ now = 1
    /\ token_info = None
    /\ cache_file = Absent
    /\ needs_authentication = FALSE
    /\ app_id = Configured[1]
    /\ META_APP_SECRET = Configured[2]
    /\ META_ACCESS_TOKEN = Configured[3]
    /\ op = [name |-> "none"]
    /\ ret = None
    /\ calls = <<>>
    /\ auth_error_seen = FALSE
    /\ ServerIdle
    /\ login = NoLogin
    /\ discovery = NoDiscovery
    /\ persist = NoPersist
    /\ busy_ports \in {{}, {StartPort}, ProbeRange}
    /\ META_ADS_DISABLE_CALLBACK_SERVER \in BOOLEAN

ServerNext ==
    \/ StartCallbackServer /\ UNCHANGED <<login, discovery, persist>>
    \/ \E l \in DOMAIN listeners : ListenerBind(l) /\ UNCHANGED <<login, discovery, persist>>
    \/ \E l \in DOMAIN listeners : ListenerBindFails(l) /\ UNCHANGED <<login, discovery, persist>>
    \/ \E l \in DOMAIN listeners : ListenerStop(l) /\ UNCHANGED <<login, discovery, persist>>
    \/ \E l \in DOMAIN listeners : HandleCallback(l) /\ UNCHANGED <<login, discovery, persist>>
    \/ \E l \in DOMAIN listeners : FinishCallback(l) /\ UNCHANGED <<login, discovery, persist>>
    \/ \E t \in DOMAIN timers : TimerFires(t) /\ UNCHANGED <<login, discovery, persist>>
    \/ \E origin \in {"caller", "timer", "handler"} : ShutdownAcquire(origin) /\ UNCHANGED <<login, discovery, persist>>
    \/ ShutdownStopped /\ UNCHANGED <<login, discovery, persist>>
    \/ ShutdownClear /\ UNCHANGED <<login, discovery, persist>>
    \/ ShutdownFinish /\ UNCHANGED <<login, discovery, persist>>

ServerSpec == ServerInit /\ [][ServerNext]_vars

(***************************************************************************)
(* Properties of the callback server, checked under ServerSpec.            *)
(***************************************************************************)

\* C9: calls of start_callback_server with no shutdown between them return
\* one and the same port, and between them start at most one listener
\* thread and arm at most one watchdog timer.
C9_SecondStartSamePort ==
    /\ Cardinality(hist.ports) <= 1
    /\ hist.threads <= 1
    /\ hist.timers <= 1

\* A second call in a row has returned the port of the running server.
C9_Witness ==
    /\ op.name = "start_callback_server"
    /\ hist.starts = 2
    /\ ret = PyInt(_callback_port)
    /\ hist.threads = 1

\* C10: when shutdown_callback_server returns (a first call, a second call in
\* a row, or a call with no server ever started) it has not raised and the
\* thread, server, port and watchdog handles are all None.
C10_ShutdownClearsHandles ==
    op.name = "shutdown_callback_server" =>
        /\ ret = None
        /\ _callback_thread = 0
        /\ _callback_httpd = 0
        /\ _callback_port = 0
        /\ _shutdown_timer = 0

\* A second shutdown in a row has returned.
C10_Witness ==
    /\ op.name = "shutdown_callback_server"
    /\ hist.shutdowns = 2

(***************************************************************************)
(* LoginSpec: auth_state.login() with the callback server, in real time.   *)
(*                                                                         *)
(* The clock counts seconds.  The steps of login() other than its sleep,   *)
(* the expiry of a due watchdog, a shutdown taking a free lock and the     *)
(* steps of a shutdown that waits for nothing take no time: the clock      *)
(* stands still while one of them can be taken.  What the environment and  *)
(* the network decide takes any time: the arrival of a /callback request,  *)
(* the token exchange of a handler, the listener thread reaching its bind. *)
(***************************************************************************)

\* deadline = time.time() + 300, time.sleep(2)
LoginDeadline == 300
PollInterval == 2

\* try: port = start_callback_server(); except: "Authentication error".
LoginStarts ==
    /\ login.pc = "idle"
    /\ StartCallbackServer
    /\ login' = IF ret' = Raised
                THEN [login EXCEPT !.pc = "finally", !.printed = "Authentication error"]
                ELSE [login EXCEPT !.pc = "started", !.port = ret'.v]

\* A login() that resets the state and does not write the redirect URI back.
LoginResetsOnly ==
    /\ login.pc = "started"
    /\ token_container' = reset_token_container
    /\ login' = [login EXCEPT !.pc = "reset"]
    /\ op' = [name |-> "login"]
    /\ ret' = None
    /\ calls' = <<>>
    /\ UNCHANGED <<storeVars, _callback_lock, _callback_thread, _callback_httpd,
                   _callback_port, _shutdown_timer, listeners, timers, shutdown_running,
                   shutdown_waiting, shutdown_calls, requests, busy_ports,
                   META_ADS_DISABLE_CALLBACK_SERVER, hist>>

\* reset_token_container(); token_container["redirect_uri"] = ...
LoginResets ==
    /\ login.pc = "started"
    /\ token_container' =
          [reset_token_container EXCEPT !.redirect_uri = RedirectUri(login.port)]
    /\ login' = [login EXCEPT !.pc = "reset"]
    /\ op' = [name |-> "login"]
    /\ ret' = None
    /\ calls' = <<>>
    /\ UNCHANGED <<storeVars, _callback_lock, _callback_thread, _callback_httpd,
                   _callback_port, _shutdown_timer, listeners, timers, shutdown_running,
                   shutdown_waiting, shutdown_calls, requests, busy_ports,
                   META_ADS_DISABLE_CALLBACK_SERVER, hist>>

\* webbrowser.open(auth_url), which may raise, then deadline = time.time() + 300.
LoginOpensBrowser ==
    /\ login.pc = "reset"
    /\ \E raised \in BOOLEAN :
          login' = IF raised
                   THEN [login EXCEPT !.pc = "finally", !.printed = "Authentication error"]
                   ELSE [login EXCEPT !.pc = "polling", !.wake = now,
                                      !.deadline = now + LoginDeadline]
    /\ op' = [name |-> "login"]
    /\ ret' = None
    /\ calls' = <<>>
    /\ UNCHANGED <<storeVars, serverVars>>

\* One pass of the polling loop, when the sleep of the last pass has ended.
PollsIgnoreError ==
    /\ login.pc = "polling"
    /\ now >= login.wake
    /\ login' =
          IF ~(now < login.deadline)
          THEN [login EXCEPT !.pc = "finally", !.printed = "Authentication timed out"]
          ELSE IF Truthy(token_container.token)
          THEN [login EXCEPT !.pc = "finally", !.printed = "Authentication successful"]
          ELSE [login EXCEPT !.wake = now + PollInterval]
    /\ op' = [name |-> "login_poll"]
    /\ ret' = None
    /\ calls' = <<>>
    /\ UNCHANGED <<storeVars, serverVars>>

LoginPolls ==
    /\ login.pc = "polling"
    /\ now >= login.wake
    /\ login' =
          IF ~(now < login.deadline)
          THEN [login EXCEPT !.pc = "finally", !.printed = "Authentication timed out"]
          ELSE IF Truthy(token_container.token)
          THEN [login EXCEPT !.pc = "finally", !.printed = "Authentication successful"]
          ELSE IF Truthy(token_container.error)
          THEN [login EXCEPT !.pc = "finally", !.printed = "Authentication failed"]
          ELSE [login EXCEPT !.wake = now + PollInterval]
    /\ op' = [name |-> "login_poll"]
    /\ ret' = None
    /\ calls' = <<>>
    /\ UNCHANGED <<storeVars, serverVars>>

\* finally: shutdown_callback_server() takes the lock.
LoginTearsDown ==
    /\ login.pc = "finally"
    /\ ShutdownAcquire("caller")
    /\ login' = [login EXCEPT !.pc = "shutdown"]

\* shutdown_callback_server() returns to login(), and login() returns.
LoginReturns ==
    /\ login.pc = "shutdown"
    /\ shutdown_running.origin = "caller"
    /\ ShutdownFinish
    /\ login' = [login EXCEPT !.pc = "done"]

\* The watchdog runs out CALLBACK_SERVER_TIMEOUT seconds after it was armed.
WatchdogExpires(t) ==
    /\ now >= timers[t].due
    /\ TimerFires(t)

\* _callback_thread.join(timeout=3)
JoinTimeout == 3

\* The join of a shutdown returns: the thread has ended, or 3 s have passed.
JoinOver ==
    IF _callback_thread = 0 THEN TRUE
    ELSE \/ listeners[_callback_thread].st = "exited"
         \/ now >= shutdown_running.since + JoinTimeout

JoinReturns ==
    /\ JoinOver
    /\ ShutdownClear

\* A step that takes no time can be taken.
Urgent ==
    \/ login.pc \in {"idle", "started", "reset"}
    \/ login.pc = "polling" /\ now >= login.wake
    \/ login.pc = "finally" /\ ~_callback_lock
    \/ \E t \in DOMAIN timers : timers[t].st = "armed" /\ now >= timers[t].due
    \/ ~_callback_lock /\ (shutdown_waiting.timer > 0 \/ shutdown_waiting.handler > 0)
    \/ shutdown_running.pc = "clearing"
    \/ shutdown_running.pc = "join" /\ JoinOver
    \/ shutdown_running.pc = "stopping" /\ listeners[shutdown_running.httpd].st = "exited"
    \/ \E l \in DOMAIN listeners : listeners[l].st = "serving" /\ listeners[l].stop

\* The clock stops shortly after the latest time login() can leave its loop.
LoginHorizon == LoginDeadline + 2 * PollInterval

\* A second passes while login() runs.
LoginTick ==
    /\ login.pc # "done"
    /\ ~Urgent
    /\ now < LoginHorizon
    /\ now' = now + 1
    /\ op' = [name |-> "tick"]
    /\ ret' = None
    /\ calls' = <<>>
    /\ UNCHANGED <<proc, token_info, cache_file, needs_authentication, envVars,
                   auth_error_seen, serverVars, login, persist>>

LoginInit == ServerInit

LoginNext ==
    \/ LoginStarts /\ UNCHANGED <<discovery, persist>>
    \/ LoginResets /\ UNCHANGED <<discovery, persist>>
    \/ LoginOpensBrowser /\ UNCHANGED <<discovery, persist>>
    \/ LoginPolls /\ UNCHANGED <<discovery, persist>>
    \/ LoginTearsDown /\ UNCHANGED <<discovery, persist>>
    \/ LoginReturns /\ UNCHANGED <<discovery, persist>>
    \/ LoginTick /\ UNCHANGED <<discovery, persist>>
    \/ \E l \in DOMAIN listeners : ListenerBind(l) /\ UNCHANGED <<login, discovery, persist>>
    \/ \E l \in DOMAIN listeners : ListenerBindFails(l) /\ UNCHANGED <<login, discovery, persist>>
    \/ \E l \in DOMAIN listeners : ListenerStop(l) /\ UNCHANGED <<login, discovery, persist>>
    \/ \E l \in DOMAIN listeners : HandleCallback(l) /\ UNCHANGED <<login, discovery, persist>>
    \/ \E l \in DOMAIN listeners : FinishCallback(l) /\ UNCHANGED <<login, discovery, persist>>
    \/ \E t \in DOMAIN timers : WatchdogExpires(t) /\ UNCHANGED <<login, discovery, persist>>
    \/ \E origin \in {"timer", "handler"} : ShutdownAcquire(origin) /\ UNCHANGED <<login, discovery, persist>>
    \/ ShutdownStopped /\ UNCHANGED <<login, discovery, persist>>
    \/ JoinReturns /\ UNCHANGED <<login, discovery, persist>>
    \/ shutdown_running.origin # "caller" /\ ShutdownFinish /\ UNCHANGED <<login, discovery, persist>>

LoginSpec == LoginInit /\ [][LoginNext]_vars

(***************************************************************************)
(* Properties of login(), checked under LoginSpec.                         *)
(***************************************************************************)
CallbackReached == token_container.status \in {"success", "error"}

TimedOutNow ==
    /\ op.name = "login_poll"
    /\ login.printed = "Authentication timed out"

\* C11, as claimed: while login() polls, a status of success or error is at
\* most one polling interval old; login() reports a timeout only when the
\* deadline has passed and only when neither status has been reached; it
\* never polls past its deadline.
C11_PollObservesStatus ==
    /\ login.pc = "polling" /\ CallbackReached =>
          now <= token_container.timestamp.v + PollInterval
    /\ login.pc = "polling" => now <= login.deadline
    /\ TimedOutNow => now >= login.deadline /\ ~CallbackReached

\* C11, amended: the same, except that a status reached after the last poll
\* of the loop, one polling interval before the deadline, is not observed:
\* login() then reports a timeout at the deadline.
C11_PollObservesStatusBeforeLastPoll ==
    /\ login.pc = "polling" /\ CallbackReached =>
          now <= token_container.timestamp.v + PollInterval
    /\ login.pc = "polling" => now <= login.deadline
    /\ TimedOutNow =>
          /\ now >= login.deadline
          /\ \/ ~CallbackReached
             \/ token_container.timestamp.v >= login.deadline - PollInterval

\* login() has just seen a success that was recorded while it slept, well
\* before its deadline.
C11_Witness ==
    /\ op.name = "login_poll"
    /\ login.printed = "Authentication successful"
    /\ token_container.status = "success"
    /\ token_container.timestamp.v > 1
    /\ now < login.deadline - PollInterval

\* C12: when login() has returned, whatever it printed, the thread, server,
\* port and watchdog handles are None and no listener thread is starting,
\* serving or handling a request.
C12_LoginTearsDownServer ==
    login.pc = "done" =>
        /\ _callback_thread = 0
        /\ _callback_httpd = 0
        /\ _callback_port = 0
        /\ _shutdown_timer = 0
        /\ \A l \in DOMAIN listeners : listeners[l].st = "exited"

\* login() has returned after a success and its server is gone.
C12_Witness ==
    /\ login.pc = "done"
    /\ login.printed = "Authentication successful"
    /\ listeners # <<>>
    /\ \A l \in DOMAIN listeners : listeners[l].st = "exited" /\ ~listeners[l].bound



(***************************************************************************)
(* RestartSpec: the callback server started again after a shutdown.        *)
(*                                                                         *)
(* The actions are those of ServerSpec without the /callback requests; a   *)
(* start may create a new listener after an earlier one was shut down.     *)
(* The watchdog may run out at any moment while it is armed: the clock is  *)
(* not modelled here, so every delay between two steps is allowed.         *)
(***************************************************************************)
RestartNext ==
    \/ StartCallbackServerUpTo(MaxListeners + MaxRestarts) /\ UNCHANGED <<login, discovery, persist>>
    \/ \E l \in DOMAIN listeners : ListenerBind(l) /\ UNCHANGED <<login, discovery, persist>>
    \/ \E l \in DOMAIN listeners : ListenerBindFails(l) /\ UNCHANGED <<login, discovery, persist>>
    \/ \E l \in DOMAIN listeners : ListenerStop(l) /\ UNCHANGED <<login, discovery, persist>>
    \/ \E t \in DOMAIN timers : TimerFires(t) /\ UNCHANGED <<login, discovery, persist>>
    \/ \E origin \in {"caller", "timer"} : ShutdownAcquire(origin) /\ UNCHANGED <<login, discovery, persist>>
    \/ ShutdownStopped /\ UNCHANGED <<login, discovery, persist>>
    \/ ShutdownClear /\ UNCHANGED <<login, discovery, persist>>
    \/ ShutdownFinish /\ UNCHANGED <<login, discovery, persist>>

RestartSpec == ServerInit /\ [][RestartNext]_vars

\* The watchdog of the server that is running now has not run out.
WatchdogPending == _shutdown_timer # 0 /\ timers[_shutdown_timer].st = "armed"

\* C13: a shutdown cancels the watchdog, so a watchdog that belongs to an
\* earlier server never shuts down a server started later: the shutdown a
\* watchdog started never begins while a server is up whose own watchdog is
\* still pending.
C13_StaleWatchdogHarmless ==
    [][(op'.name = "shutdown_enter" /\ shutdown_running'.origin = "timer")
       => ~(_callback_port # 0 /\ WatchdogPending)]_vars

\* A second server was started after the first was shut down, and the
\* shutdown the first server's watchdog started has ended it.
C13_Witness ==
    /\ op.name = "shutdown_callback_server"
    /\ op.origin = "timer"
    /\ Len(timers) = 2
    /\ Len(listeners) = 2
    /\ listeners[2].st = "exited"



(***************************************************************************)
(* DiscoverySpec: page discovery (ad_tools.py).                            *)
(*                                                                         *)
(* _collect_account_page_candidates awaits its Graph requests one after    *)
(* the other; each of its six lookups is one action, taken in the order of *)
(* the code.  The answers of Graph are the inputs.  Graph answers a        *)
(* request for the details of page X with page X or with no page.          *)
(***************************************************************************)
\* Page ids as Graph sends them: two numeric ids, one of them also with a
\* leading blank, and "" for a row that carries no id.
PageIds == {"1", "2"}
RawIds == PageIds \cup {" 1", ""}

\* str(value).strip()
Strip(raw) == IF raw = " 1" THEN "1" ELSE raw

\* str.isdigit()
IsDigit(id) == id \in PageIds

\* The `data` list of an answer: at most MaxRows rows, each with a raw id.
RowLists == UNION {[1..n -> RawIds] : n \in 0..MaxRows}

\* What Graph does with one request: a 2xx answer with a data list, an HTTP
\* error whose body holds an error object, a transport error, or an HTTP
\* error whose body holds a bare string under "error".
ErrorAnswers == {[kind |-> "error_body"], [kind |-> "transport"], [kind |-> "str_error"]}
GraphAnswers == {[kind |-> "rows", rows |-> rows] : rows \in RowLists} \cup ErrorAnswers

PyList(rows) == [t |-> "list", v |-> rows]

\* make_api_request's result: the payload's data list (Absent in the error
\* envelope {"error": {...}}), or Raised: error_obj.get on a str.
ApiPayload(answer) ==
    CASE answer.kind = "rows" -> [data |-> PyList(answer.rows)]
      [] answer.kind = "error_body" -> [data |-> Absent]
      [] answer.kind = "transport" -> [data |-> Absent]
      [] answer.kind = "str_error" -> Raised

\* The six lookups in the order of the code, and their confidence tiers.
Sources == <<"me/accounts", "business/owned_pages", "ad_account/client_pages",
             "ad_account/assigned_pages", "ads/tracking_specs",
             "adcreatives/object_story_spec">>

Confidence(source) ==
    IF source \in {"me/accounts", "business/owned_pages"}
    THEN "primary_documented" ELSE "secondary_fallback"

\* The lookup after `source`; "collected" after the last one.
NextLookup(source) ==
    LET i == CHOOSE j \in DOMAIN Sources : Sources[j] = source IN
    IF i = Len(Sources) THEN "collected" ELSE Sources[i + 1]


\* add_candidate without the look at seen_ids.
AddKeepsDuplicates(c, raw, source, confidence, error) ==
    LET facebook_page_id == Strip(raw) IN
    IF facebook_page_id = ""
    THEN c
    ELSE [c EXCEPT !.pages = Append(@, [id |-> facebook_page_id,
                                        source |-> source,
                                        confidence |-> confidence,
                                        error |-> error]),
                   !.seen_ids = @ \cup {facebook_page_id}]

\* add_candidate: a page joins the list unless it has no id or its id was seen.
add_candidate(c, raw, source, confidence, error) ==
    LET facebook_page_id == Strip(raw) IN
    IF facebook_page_id = "" \/ facebook_page_id \in c.seen_ids
    THEN c
    ELSE [c EXCEPT !.pages = Append(@, [id |-> facebook_page_id,
                                        source |-> source,
                                        confidence |-> confidence,
                                        error |-> error]),
                   !.seen_ids = @ \cup {facebook_page_id}]

\* for row in payload.get("data", []): add_candidate(row, source, confidence)
RECURSIVE AddRows(_, _, _, _)
AddRows(c, rows, source, confidence) ==
    IF rows = <<>> THEN c
    ELSE AddRows(add_candidate(c, Head(rows), source, confidence, Absent),
                 Tail(rows), source, confidence)

add_failure(c, source, reason) ==
    [c EXCEPT !.failures = Append(@, [source |-> source, reason |-> reason])]

\* The ids the rows of an answer hold, as add_candidate reads them.
IdsOf(rows) == {Strip(rows[i]) : i \in DOMAIN rows} \ {""}

\* One try block that requests an edge and adds its rows.
EdgeLookup(c, source, answer) ==
    LET payload == ApiPayload(answer) IN
    IF payload = Raised
    THEN add_failure(c, source, "exception")
    ELSE AddRows(c, Get(payload.data, PyList(<<>>)).v, source, Confidence(source))

\* How a request ended, for the history: with a payload, with the error
\* envelope, or with an exception.
Outcome(answer) ==
    IF answer.kind \in {"error_body", "transport"} THEN "envelope"
    ELSE IF answer.kind = "str_error" THEN "raised"
    ELSE "payload"

\* What the history keeps of a lookup: the ids its answers held and how its
\* request ended.
Produced(c, source, ids, outcome) ==
    [c EXCEPT !.produced = @ \cup {<<source, id>> : id \in ids},
              !.outcomes = Append(@, outcome),
              !.pc = NextLookup(source)]

\* A request as the history logs it.
Request(edge) == [fn |-> "make_api_request", endpoint |-> edge]

\* Lookups 1, 3 and 4: me/accounts, client_pages, assigned_pages.
LookupEdge(source) ==
    /\ discovery.pc = source
    /\ \E answer \in GraphAnswers :
          discovery' = Produced(EdgeLookup(discovery, source, answer), source,
                                IF answer.kind = "rows" THEN IdsOf(answer.rows) ELSE {},
                                Outcome(answer))
    /\ op' = [name |-> "lookup", source |-> source]
    /\ calls' = Append(calls, Request(source))
    /\ ret' = None
    /\ UNCHANGED <<storeVars, serverVars, login, persist>>

LookupMeAccounts == LookupEdge("me/accounts")

LookupAccountEdges ==
    \E source \in {"ad_account/client_pages", "ad_account/assigned_pages"} :
       LookupEdge(source)


\* The answers to the request for the account's business{id,name}: the
\* business as an object with an id, as a bare id, or not there.
AccountAnswers ==
    {[kind |-> "account", business |-> b] : b \in {"object", "id", "none"}}
    \cup ErrorAnswers

\* business_id of the account payload; None when nothing is linked.
BusinessId(answer) ==
    IF answer.kind = "account" /\ answer.business \in {"object", "id"}
    THEN PyStr("b1") ELSE None

\* Lookup 2: the account's business, then the business's owned_pages.
BusinessLookup(c, account, owned) ==
    IF account.kind # "account" /\ ApiPayload(account) = Raised
    THEN add_failure(c, "business/owned_pages", "exception")
    ELSE IF Truthy(BusinessId(account))
    THEN EdgeLookup(c, "business/owned_pages", owned)
    ELSE add_failure(c, "business/owned_pages",
                     "Ad account is not linked to a business object")

LookupBusinessOwnedPages ==
    /\ discovery.pc = "business/owned_pages"
    /\ \E account \in AccountAnswers :
       \E owned \in IF Truthy(BusinessId(account)) THEN GraphAnswers
                    ELSE {[kind |-> "none"]} :
          /\ discovery' =
                Produced(BusinessLookup(discovery, account, owned), "business/owned_pages",
                         IF owned.kind = "rows" THEN IdsOf(owned.rows) ELSE {},
                         IF account.kind # "account" THEN Outcome(account)
                         ELSE IF owned.kind = "none" THEN "unlinked"
                         ELSE Outcome(owned))
          /\ op' = [name |-> "lookup", source |-> "business/owned_pages"]
          /\ calls' = calls \o (IF Truthy(BusinessId(account))
                                THEN <<Request("account"), Request("business/owned_pages")>>
                                ELSE <<Request("account")>>)
    /\ ret' = None
    /\ UNCHANGED <<storeVars, serverVars, login, persist>>


\* The raw page ids the ads' tracking_specs or the creatives'
\* object_story_spec hold: numeric ids, one with a blank, and a name.
InferredRawIds == PageIds \cup {" 1", "p"}

InferredAnswers ==
    {[kind |-> "specs", raw |-> raw] : raw \in SUBSET InferredRawIds} \cup ErrorAnswers

\* tracking_ids and story_ids: the stripped values that are all digits.
DigitIds(raw) == {id \in {Strip(r) : r \in raw} : IsDigit(id)}

\* sorted(ids), as a sequence.
Sorted(ids) == SelectSeq(<<"1", "2">>, LAMBDA id : id \in ids)

\* The answers to a request for the details of one page: the page, or one
\* of the errors.
DetailAnswers == {[kind |-> "page"]} \cup ErrorAnswers

\* add_page_by_id: nothing for an id already seen; else the page's details
\* are requested and the page joins the list, with an error note when the
\* request gave no page or raised.
add_page_by_id(c, facebook_page_id, source, confidence, detail) ==
    LET normalized == Strip(facebook_page_id) IN
    IF normalized = "" \/ normalized \in c.seen_ids
    THEN c
    ELSE IF detail.kind = "page"
    THEN add_candidate(c, normalized, source, confidence, Absent)
    ELSE IF ApiPayload(detail) = Raised
    THEN add_candidate(c, normalized, source, confidence,
                       PyStr("Failed to get page details"))
    ELSE add_candidate(c, normalized, source, confidence,
                       PyStr("Page details not accessible"))

\* for facebook_page_id in sorted(ids): await add_page_by_id(...); details
\* holds an answer for each id that is not yet seen, the others are skipped.
RECURSIVE AddPagesById(_, _, _, _)
AddPagesById(c, ids, source, details) ==
    IF ids = <<>> THEN c
    ELSE AddPagesById(IF Head(ids) \in DOMAIN details
                      THEN add_page_by_id(c, Head(ids), source, Confidence(source),
                                          details[Head(ids)])
                      ELSE c,
                      Tail(ids), source, details)

\* One try block that requests an edge, infers page ids from its rows and
\* requests each page.
InferredLookup(c, source, answer, details) ==
    IF answer.kind = "specs"
    THEN AddPagesById(c, Sorted(DigitIds(answer.raw)), source, details)
    ELSE IF ApiPayload(answer) = Raised
    THEN add_failure(c, source, "exception")
    ELSE c

\* Lookups 5 and 6: the ads' tracking_specs, the creatives' object_story_spec.
LookupInferred(source) ==
    /\ discovery.pc = source
    /\ \E answer \in InferredAnswers :
          LET ids == IF answer.kind = "specs" THEN DigitIds(answer.raw) ELSE {}
              fetched == ids \ discovery.seen_ids
          IN  \E details \in [fetched -> DetailAnswers] :
                 /\ discovery' = Produced(InferredLookup(discovery, source, answer, details),
                                          source, ids, Outcome(answer))
                 /\ op' = [name |-> "lookup", source |-> source]
                 /\ calls' = calls \o <<Request(source)>>
                                   \o [i \in 1..Len(Sorted(fetched)) |->
                                          Request(Sorted(fetched)[i])]
    /\ ret' = None
    /\ UNCHANGED <<storeVars, serverVars, login, persist>>

LookupTrackingSpecs == LookupInferred("ads/tracking_specs")

LookupObjectStorySpecs == LookupInferred("adcreatives/object_story_spec")


\* A selection that takes the last candidate.
SelectsLast(candidates) == candidates[Len(candidates)]

\* next((page for page in candidates if primary_documented), candidates[0])
Selected(candidates) ==
    IF \E i \in DOMAIN candidates : candidates[i].confidence = "primary_documented"
    THEN candidates[CHOOSE i \in DOMAIN candidates :
                       /\ candidates[i].confidence = "primary_documented"
                       /\ \A j \in 1..(i - 1) :
                             candidates[j].confidence # "primary_documented"]
    ELSE candidates[1]

\* _discover_pages_for_account, from the collected candidates on.
_discover_pages_for_account(c) ==
    IF c.pages # <<>>
    THEN LET selected == Selected(c.pages) IN
         [success |-> TRUE,
          facebook_page_id |-> selected.id,
          source |-> selected.source,
          confidence |-> selected.confidence,
          total_candidates |-> Len(c.pages)]
    ELSE [success |-> FALSE,
          message |-> "No suitable pages found for this account",
          failed_sources |-> c.failures]

\* The page ids a caller of create_ad_creative passes.
ExplicitPageIds == {None, PyStr(""), PyStr("7")}

\* _resolve_page_id_for_creative up to its first request: an explicit page
\* id is returned at once, else the discovery begins.
ResolvePageId ==
    /\ discovery.pc \in {"idle", "done"}
    /\ \E facebook_page_id \in ExplicitPageIds :
          /\ op' = [name |-> "_resolve_page_id_for_creative",
                    facebook_page_id |-> facebook_page_id]
          /\ IF Truthy(facebook_page_id)
             THEN /\ ret' = [facebook_page_id |-> facebook_page_id, error |-> None]
                  /\ discovery' = NoDiscovery
             ELSE /\ ret' = None
                  /\ discovery' = [NoDiscovery EXCEPT !.pc = Sources[1]]
    /\ calls' = <<>>
    /\ UNCHANGED <<storeVars, serverVars, login, persist>>

\* The lookups are over: _discover_pages_for_account selects a page and
\* _resolve_page_id_for_creative returns it, or an error.
DiscoverPagesForAccount ==
    /\ discovery.pc = "collected"
    /\ LET result == _discover_pages_for_account(discovery) IN
          ret' = IF result.success
                 THEN [facebook_page_id |-> PyStr(result.facebook_page_id),
                       error |-> None, discovery |-> result]
                 ELSE [facebook_page_id |-> None,
                       error |-> PyStr("No page ID provided and no suitable pages found for this account"),
                       discovery |-> result]
    /\ discovery' = [discovery EXCEPT !.pc = "done"]
    /\ op' = [name |-> "_discover_pages_for_account"]
    /\ UNCHANGED <<storeVars, serverVars, login, persist, calls>>

DiscoveryNext ==
    \/ ResolvePageId
    \/ LookupMeAccounts
    \/ LookupBusinessOwnedPages
    \/ LookupAccountEdges
    \/ LookupTrackingSpecs
    \/ LookupObjectStorySpecs
    \/ DiscoverPagesForAccount

\* The process is up and no callback server was started.
DiscoveryInit ==
    /\ ServerInit
    /\ busy_ports = {}
    /\ ~META_ADS_DISABLE_CALLBACK_SERVER

DiscoverySpec == DiscoveryInit /\ [][DiscoveryNext]_vars


(***************************************************************************)
(* Properties of page discovery, checked under DiscoverySpec.              *)
(***************************************************************************)
\* The place of a lookup in the priority order.
Priority(source) == CHOOSE i \in DOMAIN Sources : Sources[i] = source

\* The lookups whose answers held this id.
ProducedBy(id) == {source \in {Sources[i] : i \in DOMAIN Sources} :
                      <<source, id>> \in discovery.produced}

\* C14: no two page candidates share an id, and each candidate carries the
\* source of the earliest lookup, in the priority order, whose answer held
\* its id, with that lookup's tier: primary_documented for me/accounts and
\* the business's owned_pages, secondary_fallback for the other four.
C14_FirstOccurrenceWins ==
    LET pages == discovery.pages IN
    /\ \A i, j \in DOMAIN pages : i # j => pages[i].id # pages[j].id
    /\ \A i \in DOMAIN pages :
          /\ pages[i].source \in ProducedBy(pages[i].id)
          /\ \A other \in ProducedBy(pages[i].id) :
                Priority(pages[i].source) <= Priority(other)
          /\ pages[i].confidence =
                IF Priority(pages[i].source) <= 2
                THEN "primary_documented" ELSE "secondary_fallback"

\* me/accounts answered with page 1 and client_pages with pages 1 and 2; the
\* discovery is over and lists page 1 from me/accounts, then page 2.
C14_Witness ==
    /\ discovery.pc = "done"
    /\ discovery.produced = {<<"me/accounts", "1">>,
                             <<"ad_account/client_pages", "1">>,
                             <<"ad_account/client_pages", "2">>}
    /\ Len(discovery.pages) = 2
    /\ discovery.pages[1].id = "1"
    /\ discovery.pages[1].source = "me/accounts"
    /\ discovery.pages[1].confidence = "primary_documented"
    /\ discovery.pages[2].id = "2"
    /\ discovery.pages[2].source = "ad_account/client_pages"
    /\ discovery.pages[2].confidence = "secondary_fallback"


\* The lookup's request, or one of its requests, came back with an error.
LookupFailed(i) == discovery.outcomes[i] \in {"envelope", "raised"}

\* C15: a discovery whose six lookups all failed returns success = false
\* with no candidate and exactly six failure entries, one per source in the
\* order of the lookups.
C15_AllLookupsFail ==
    (/\ discovery.pc = "done"
     /\ \A i \in DOMAIN Sources : LookupFailed(i))
    => /\ ~ret.discovery.success
       /\ discovery.pages = <<>>
       /\ Len(ret.discovery.failed_sources) = Len(Sources)
       /\ \A i \in DOMAIN Sources : ret.discovery.failed_sources[i].source = Sources[i]

\* Every request of a discovery raised, and the discovery returned the six
\* failure entries.
C15_Witness ==
    /\ discovery.pc = "done"
    /\ \A i \in DOMAIN Sources : discovery.outcomes[i] = "raised"
    /\ ~ret.discovery.success
    /\ Len(ret.discovery.failed_sources) = Len(Sources)


\* The endpoints requested so far.
Requested == {calls[i].endpoint : i \in DOMAIN calls}

\* The sources of the failure entries.
FailedSources == {discovery.failures[i].source : i \in DOMAIN discovery.failures}

\* Every lookup was attempted: each has an outcome and its first request
\* was sent.
AllLookupsAttempted ==
    /\ Len(discovery.outcomes) = Len(Sources)
    /\ {"me/accounts", "account", "ad_account/client_pages", "ad_account/assigned_pages",
        "ads/tracking_specs", "adcreatives/object_story_spec"} \subseteq Requested

\* Every id an answer held is the id of a candidate.
AllProducedListed ==
    \A pair \in discovery.produced :
       \E i \in DOMAIN discovery.pages : discovery.pages[i].id = pair[2]

\* Failure is reported exactly when there is no candidate.
FailureOnlyWithoutCandidates == ret.discovery.success <=> discovery.pages # <<>>

\* C16: whatever lookups fail, a finished discovery has attempted all six
\* lookups, lists every page a lookup produced, holds a failure entry for
\* each failed lookup, and reports failure only when it has no candidate.
C16_FailuresNeverAbort ==
    discovery.pc = "done"
    => /\ AllLookupsAttempted
       /\ AllProducedListed
       /\ \A i \in DOMAIN Sources : LookupFailed(i) => Sources[i] \in FailedSources
       /\ FailureOnlyWithoutCandidates

\* The first lookup raised, a later one produced a page, and the discovery
\* succeeded with the failure recorded.
C16_Witness ==
    /\ discovery.pc = "done"
    /\ discovery.outcomes[1] = "raised"
    /\ "me/accounts" \in FailedSources
    /\ <<"ad_account/assigned_pages", "2">> \in discovery.produced
    /\ ret.discovery.success


IsPrimary(page) == page.confidence = "primary_documented"

\* C17: without an explicit page id the page returned is the first
\* primary_documented candidate if there is one, else the first candidate of
\* the list; an explicit page id is returned as it is, and no request is
\* sent for it.
C17_PageSelection ==
    /\ (op.name = "_discover_pages_for_account" /\ discovery.pages # <<>>)
       => LET pages == discovery.pages
              first == IF \E i \in DOMAIN pages : IsPrimary(pages[i])
                       THEN CHOOSE i \in DOMAIN pages :
                               /\ IsPrimary(pages[i])
                               /\ \A j \in DOMAIN pages : IsPrimary(pages[j]) => i <= j
                       ELSE 1
          IN  /\ ret.discovery.success
              /\ ret.facebook_page_id = PyStr(pages[first].id)
              /\ ret.error = None
    /\ (op.name = "_resolve_page_id_for_creative" /\ Truthy(op.facebook_page_id))
       => /\ ret.facebook_page_id = op.facebook_page_id
          /\ ret.error = None
          /\ calls = <<>>
          /\ discovery.pc = "idle"

\* No primary lookup produced a page; two secondary candidates were found
\* and the first of them was returned.
C17_Witness ==
    /\ op.name = "_discover_pages_for_account"
    /\ Len(discovery.pages) = 2
    /\ \A i \in DOMAIN discovery.pages : ~IsPrimary(discovery.pages[i])
    /\ ret.facebook_page_id = PyStr(discovery.pages[1].id)
    /\ ret.discovery.confidence = "secondary_fallback"



(***************************************************************************)
(* PreviewSpec: list_ad_previews and its retry over the fallback formats   *)
(* (ad_tools.py).  The payloads make_api_request returns are the inputs.   *)
(***************************************************************************)
_PREVIEW_FALLBACK_AD_FORMATS ==
    <<"DESKTOP_FEED_STANDARD", "MOBILE_FEED_STANDARD", "INSTAGRAM_STANDARD",
      "FACEBOOK_STORY_MOBILE", "INSTAGRAM_STORY">>

\* The error messages of the model and the words each contains.
ErrorMessages ==
    {"The parameter ad_format is required", "ad_format is not valid",
     "The parameter ad_id is required", "HTTP Error: 400"}

Contains(message, word) ==
    CASE word = "ad_format" ->
            message \in {"The parameter ad_format is required", "ad_format is not valid"}
      [] word = "required" ->
            message \in {"The parameter ad_format is required",
                         "The parameter ad_id is required"}

\* What make_api_request gives list_ad_previews: a payload without an error,
\* a payload whose error is an object or a bare string, or an exception.
PreviewPayload == [kind |-> "preview"]
ErrorPayload(shape, message) == [kind |-> "error", shape |-> shape, message |-> message]
RaisedPayload == [kind |-> "raises"]

FirstPayloads ==
    {PreviewPayload, RaisedPayload,
     ErrorPayload("str", "The parameter ad_format is required")}
    \cup {ErrorPayload("dict", message) : message \in ErrorMessages}

FallbackPayloads == {PreviewPayload, RaisedPayload, ErrorPayload("dict", "HTTP Error: 400")}

\* _preview_requires_ad_format: the error, dumped as JSON, holds both words.
_preview_requires_ad_format(payload) ==
    /\ payload.kind = "error"
    /\ Contains(payload.message, "ad_format")
    /\ Contains(payload.message, "required")

PreviewRequest(ad_format) ==
    [fn |-> "make_api_request", endpoint |-> "previews", ad_format |-> ad_format]

\* The result of the tool: the JSON of a payload with what the tool added.
Json(payload, request_context, attempted) ==
    [payload |-> payload, request_context |-> request_context,
     attempted_ad_formats |-> attempted]

\* The loop over the fallback formats from format i on; `sent` are the
\* requests so far, `payload` the answer to the first request.
RECURSIVE PreviewFallback(_, _, _, _)
PreviewFallback(i, sent, payload, fallbacks) ==
    IF i > Len(_PREVIEW_FALLBACK_AD_FORMATS)
    THEN [ret |-> Json(payload, Absent,
                       IF payload.shape = "dict"
                       THEN PyList(_PREVIEW_FALLBACK_AD_FORMATS) ELSE Absent),
          calls |-> sent]
    ELSE LET fallback_format == _PREVIEW_FALLBACK_AD_FORMATS[i]
             issued == Append(sent, PreviewRequest(PyStr(fallback_format)))
         IN  IF fallbacks[i].kind = "raises"
             THEN [ret |-> Raised, calls |-> issued]
             ELSE IF fallbacks[i].kind # "error"
             THEN [ret |-> Json(fallbacks[i],
                                [ad_format |-> fallback_format, auto_selected |-> TRUE],
                                Absent),
                   calls |-> issued]
             ELSE PreviewFallback(i + 1, issued, payload, fallbacks)

\* A retry that does not look at the caller's ad_format.
RetriesWithExplicitFormat(ad_id, ad_format, payload, fallbacks) ==
    IF ad_id = "" THEN [ret |-> PyStr("No ad ID provided"), calls |-> <<>>]
    ELSE LET first == <<PreviewRequest(IF Truthy(ad_format) THEN ad_format ELSE Absent)>> IN
         IF payload.kind = "raises" THEN [ret |-> Raised, calls |-> first]
         ELSE IF _preview_requires_ad_format(payload)
         THEN PreviewFallback(1, first, payload, fallbacks)
         ELSE [ret |-> Json(payload, Absent, Absent), calls |-> first]

list_ad_previews(ad_id, ad_format, payload, fallbacks) ==
    IF ad_id = "" THEN [ret |-> PyStr("No ad ID provided"), calls |-> <<>>]
    ELSE LET first == <<PreviewRequest(IF Truthy(ad_format) THEN ad_format ELSE Absent)>> IN
         IF payload.kind = "raises" THEN [ret |-> Raised, calls |-> first]
         ELSE IF ~Truthy(ad_format) /\ _preview_requires_ad_format(payload)
         THEN PreviewFallback(1, first, payload, fallbacks)
         ELSE [ret |-> Json(payload, Absent, Absent), calls |-> first]

\* The ad_format arguments of a call.
AdFormats == {None, PyStr(""), PyStr("MOBILE_FEED_STANDARD")}

\* A caller is about to call the tool with these arguments, and Graph is
\* about to give these answers.
CallListAdPreviews ==
    /\ op.name = "none"
    /\ \E ad_id \in {"", "123"}, ad_format \in AdFormats, payload \in FirstPayloads,
          fallbacks \in [DOMAIN _PREVIEW_FALLBACK_AD_FORMATS -> FallbackPayloads] :
          op' = [name |-> "call", ad_id |-> ad_id, ad_format |-> ad_format,
                 payload |-> payload, fallbacks |-> fallbacks]
    /\ UNCHANGED <<ret, calls, storeVars, serverVars, login, discovery, persist>>

ListAdPreviews ==
    /\ op.name = "call"
    /\ LET out == list_ad_previews(op.ad_id, op.ad_format, op.payload, op.fallbacks) IN
          /\ ret' = out.ret
          /\ calls' = out.calls
    /\ op' = [op EXCEPT !.name = "list_ad_previews"]
    /\ UNCHANGED <<storeVars, serverVars, login, discovery, persist>>

PreviewNext ==
    \/ CallListAdPreviews
    \/ ListAdPreviews

PreviewSpec == DiscoveryInit /\ [][PreviewNext]_vars


(***************************************************************************)
(* Properties of list_ad_previews, checked under PreviewSpec.              *)
(***************************************************************************)
\* The first answer is an error that says ad_format is required.
SaysFormatRequired(payload) ==
    payload.kind = "error" /\ payload.message = "The parameter ad_format is required"

\* C18: list_ad_previews sends more than one request only when the caller
\* gave no ad_format and the first answer is an error saying ad_format is
\* required; the further requests carry the five fallback formats in their
\* fixed order, each sent after the one before it came back with an error;
\* the first answer without an error ends the walk and is returned marked
\* auto_selected with its format; at most six requests are sent.  With an
\* explicit ad_format one request is sent, with that format, and its error
\* is returned unchanged.
C18_PreviewRetry ==
    (op.name = "list_ad_previews" /\ op.ad_id # "")
    => LET explicit == Truthy(op.ad_format)
           last == Len(calls) - 1
       IN  /\ Len(calls) \in 1..(1 + Len(_PREVIEW_FALLBACK_AD_FORMATS))
           /\ calls[1].ad_format = IF explicit THEN op.ad_format ELSE Absent
           /\ Len(calls) > 1 <=> (~explicit /\ SaysFormatRequired(op.payload))
           /\ \A i \in 1..last :
                 /\ calls[i + 1].ad_format = PyStr(_PREVIEW_FALLBACK_AD_FORMATS[i])
                 /\ i < last => op.fallbacks[i].kind = "error"
           /\ (last > 0 /\ op.fallbacks[last].kind = "error")
              => last = Len(_PREVIEW_FALLBACK_AD_FORMATS)
           /\ (last > 0 /\ op.fallbacks[last].kind = "preview")
              => /\ ret.payload = op.fallbacks[last]
                 /\ ret.request_context =
                       [ad_format |-> _PREVIEW_FALLBACK_AD_FORMATS[last],
                        auto_selected |-> TRUE]
           /\ (explicit /\ op.payload.kind = "error")
              => /\ Len(calls) = 1
                 /\ ret = Json(op.payload, Absent, Absent)

\* No ad_format was given, the first answer asked for one, two fallback
\* formats came back with an error and the third gave the preview.
C18_Witness ==
    /\ op.name = "list_ad_previews"
    /\ ~Truthy(op.ad_format)
    /\ SaysFormatRequired(op.payload)
    /\ Len(calls) = 4
    /\ ret # Raised
    /\ ret.request_context = [ad_format |-> "INSTAGRAM_STANDARD", auto_selected |-> TRUE]



(***************************************************************************)
(* WrapperSpec: the decorator meta_api_tool (graph_client.py).  The        *)
(* token argument, the outcome of the token lookup and the outcome of the  *)
(* tool body are the inputs.                                               *)
(***************************************************************************)
\* An exception of the given class leaving a function.
RaisedError(exc) == [t |-> "raise", exc |-> exc]

\* The strings a tool body returns.
ResultStrings ==
    {"{\"error\": \"No search query provided\"}",
     "{\"error\": {\"message\": \"HTTP Error: 400\"}}",
     "{\"data\": []}", "[1, 2]", "null", "Report written", ""}

\* json.loads: a dict with its `error` entry, another JSON value, or Raised.
json_loads(text) ==
    CASE text = "{\"error\": \"No search query provided\"}" ->
            [t |-> "dict", error |-> PyStr("No search query provided")]
      [] text = "{\"error\": {\"message\": \"HTTP Error: 400\"}}" ->
            [t |-> "dict", error |-> [t |-> "dict"]]
      [] text = "{\"data\": []}" -> [t |-> "dict", error |-> Absent]
      [] text = "[1, 2]" -> [t |-> "list"]
      [] text = "null" -> None
      [] OTHER -> Raised

\* What the tool body does: raise, or return a dict (one that json.dumps
\* takes or one it raises TypeError on), a string, or None.
BodyOutcomes ==
    {RaisedError("McpToolError"), RaisedError("ValueError"),
     [t |-> "dict", serializable |-> TRUE], [t |-> "dict", serializable |-> FALSE], None}
    \cup {PyStr(text) : text \in ResultStrings}

\* The text json.dumps(obj, indent=2) gives, kept as the object it encodes.
JsonDumps(obj) == [t |-> "json", obj |-> obj]

\* _auth_error_payload
_auth_error_payload ==
    JsonDumps([error |-> [message |-> "Authentication Required"]])

\* The wrapper from the tool body's outcome on.
WrapResult(result) ==
    CASE result.t = "raise" ->
            IF result.exc = "McpToolError" THEN result
            ELSE JsonDumps([error |-> result.exc])
      [] result.t = "dict" ->
            IF result.serializable THEN JsonDumps(result)
            ELSE JsonDumps([error |-> "TypeError"])
      [] result.t = "str" ->
            LET parsed == json_loads(result.v) IN
            IF parsed = Raised THEN JsonDumps([data |-> result.v])
            ELSE IF parsed.t = "dict" /\ parsed.error.t = "str"
            THEN JsonDumps([data |-> result.v])
            ELSE result
      [] OTHER -> result

\* A wrapper that hands every string of the tool body on as it is.
WrapsNoString(meta_access_token, lookup, result) ==
    IF ~Truthy(meta_access_token) /\ lookup.t = "raise"
    THEN JsonDumps([error |-> lookup.exc])
    ELSE IF ~Truthy(meta_access_token) /\ ~Truthy(lookup)
    THEN _auth_error_payload
    ELSE IF result.t = "str" THEN result
    ELSE WrapResult(result)

\* meta_api_tool's wrapper: the token is looked up when the caller gave
\* none; without a token the tool body is not run.
meta_api_tool(meta_access_token, lookup, result) ==
    IF ~Truthy(meta_access_token) /\ lookup.t = "raise"
    THEN JsonDumps([error |-> lookup.exc])
    ELSE IF ~Truthy(meta_access_token) /\ ~Truthy(lookup)
    THEN _auth_error_payload
    ELSE WrapResult(result)

\* A host is about to call a wrapped tool.
CallTool ==
    /\ op.name = "none"
    /\ \E meta_access_token \in {Absent, PyStr(""), PyStr(EnvTok)},
          lookup \in {None, PyStr(LongTok), RaisedError("OSError")},
          result \in BodyOutcomes :
          op' = [name |-> "call", meta_access_token |-> meta_access_token,
                 lookup |-> lookup, result |-> result]
    /\ UNCHANGED <<ret, calls, storeVars, serverVars, login, discovery, persist>>

MetaApiTool ==
    /\ op.name = "call"
    /\ ret' = meta_api_tool(op.meta_access_token, op.lookup, op.result)
    /\ calls' = IF Truthy(op.meta_access_token) THEN <<>>
                ELSE <<Call("get_current_access_token", op.lookup)>>
    /\ op' = [op EXCEPT !.name = "meta_api_tool"]
    /\ UNCHANGED <<storeVars, serverVars, login, discovery, persist>>

WrapperNext ==
    \/ CallTool
    \/ MetaApiTool

WrapperSpec == DiscoveryInit /\ [][WrapperNext]_vars

\* The tool body was run: the caller gave a token or the lookup found one.
BodyRan == Truthy(op.meta_access_token) \/ Truthy(op.lookup)

\* C19: the wrapper lets no exception out but the tool body's McpToolError.
\* Any other exception of the tool body comes back as a JSON object with an
\* error key; a missing token comes back as the Authentication Required
\* payload, the tool body not run; a string of the tool body that is not
\* JSON, or is a JSON object whose error is a string, comes back as the
\* JSON object {"data": that string}.
C19_WrapperEnvelope ==
    op.name = "meta_api_tool"
    => /\ ret.t = "raise" <=> (BodyRan /\ op.result = RaisedError("McpToolError"))
       /\ (BodyRan /\ op.result = RaisedError("ValueError"))
          => (ret.t = "json" /\ "error" \in DOMAIN ret.obj)
       /\ (~Truthy(op.meta_access_token) /\ op.lookup = None)
          => (/\ ret.t = "json"
              /\ "error" \in DOMAIN ret.obj
              /\ ret.obj.error.message = "Authentication Required")
       /\ (BodyRan /\ op.result \in
              {PyStr("{\"error\": \"No search query provided\"}"),
               PyStr("Report written"), PyStr("")})
          => ret = [t |-> "json", obj |-> [data |-> op.result.v]]

\* The tool body returned the JSON of an object whose error is a string,
\* and the wrapper returned it as the data of a new object.
C19_Witness ==
    /\ op.name = "meta_api_tool"
    /\ op.result = PyStr("{\"error\": \"No search query provided\"}")
    /\ ret = [t |-> "json", obj |-> [data |-> "{\"error\": \"No search query provided\"}"]]



(***************************************************************************)
(* SanitizeSpec: the payloads make_api_request returns (graph_client.py).  *)
(*                                                                         *)
(* A string is kept as its text before the "?", the list of its query      *)
(* parameters and its fragment.  A parameter's value is kept decoded, with *)
(* a note whether the string spells it percent-encoded.  Graph's answer is *)
(* a template in which TokenMark stands for the token of the request.      *)
(***************************************************************************)
TokenMark == "<token>"

\* The tokens of the requests.
RequestTokens == {EnvTok, LongTok}

Param(key, value, enc) == [key |-> key, value |-> value, enc |-> enc]

\* The query parameters Graph's URLs carry.
QueryParams ==
    {Param("access_token", TokenMark, "raw"), Param("ACCESS_TOKEN", TokenMark, "raw"),
     Param("fields", "id,name", "raw"), Param("fields", "id,name", "percent"),
     Param("after", "", "raw")}

QueryLists == UNION {[1..n -> QueryParams] : n \in 0..MaxParams}

\* A string value; one without query and fragment is plain text.
Str(text, query, fragment) ==
    [t |-> "str", text |-> text, query |-> query, fragment |-> fragment]

Strings == {Str("https://graph.facebook.com/v25.0/act_123/campaigns", query, fragment) :
               query \in QueryLists, fragment \in {"", "top"}}

\* JSON values nested to the given depth: a string, a list or an object.
RECURSIVE JsonValues(_)
JsonValues(depth) ==
    IF depth = 0 THEN Strings
    ELSE Strings
         \cup {[t |-> "list", v |-> <<item>>] : item \in JsonValues(depth - 1)}
         \cup {[t |-> "dict", v |-> [next |-> item]] : item \in JsonValues(depth - 1)}

\* str.lower() on a parameter's key.
Lower(key) == IF key = "ACCESS_TOKEN" THEN "access_token" ELSE key

\* "access_token=" in value.lower()
MentionsToken(value) ==
    \E i \in DOMAIN value.query : Lower(value.query[i].key) = "access_token"

\* _sanitize_url: urlsplit, parse_qsl, the filter on the lowered key,
\* urlencode (which percent-encodes every value it keeps), urlunsplit.
_sanitize_url(raw_url) ==
    LET kept == SelectSeq(raw_url.query, LAMBDA pair : Lower(pair.key) # "access_token") IN
    [raw_url EXCEPT !.query = [i \in DOMAIN kept |-> [kept[i] EXCEPT !.enc = "percent"]]]

RECURSIVE _sanitize_response_payload(_)
_sanitize_response_payload(value) ==
    CASE value.t = "dict" ->
            [value EXCEPT !.v = [key \in DOMAIN value.v |->
                                    _sanitize_response_payload(value.v[key])]]
      [] value.t = "list" ->
            [value EXCEPT !.v = [i \in DOMAIN value.v |->
                                    _sanitize_response_payload(value.v[i])]]
      [] value.t = "str" ->
            IF MentionsToken(value) THEN _sanitize_url(value) ELSE value
      [] OTHER -> value


Plain(text) == Str(text, <<>>, "")
Dict(fields) == [t |-> "dict", v |-> fields]

\* What comes back from Graph: a JSON body or a body that is not JSON, with
\* a 2xx or an error status, or an exception of the HTTP client with its
\* message.
Responses ==
    {[kind |-> "json", status |-> status, body |-> body] :
        status \in {200, 400}, body \in JsonValues(MaxDepth)}
    \cup {[kind |-> "text", status |-> status, body |-> body] :
             status \in {200, 400}, body \in Strings}
    \cup {[kind |-> "exception", status |-> 0, body |-> body] : body \in Strings}

\* The answer Graph gives to a request made with this token.
RECURSIVE Instantiate(_, _)
Instantiate(value, meta_access_token) ==
    CASE value.t = "dict" ->
            [value EXCEPT !.v = [key \in DOMAIN value.v |->
                                    Instantiate(value.v[key], meta_access_token)]]
      [] value.t = "list" ->
            [value EXCEPT !.v = [i \in DOMAIN value.v |->
                                    Instantiate(value.v[i], meta_access_token)]]
      [] value.t = "str" ->
            [value EXCEPT !.query =
                [i \in DOMAIN value.query |->
                    IF value.query[i].value = TokenMark
                    THEN [value.query[i] EXCEPT !.value = meta_access_token]
                    ELSE value.query[i]]]
      [] OTHER -> value

\* str(exc.response.url): the request's URL with the params of a GET.
RequestUrl(meta_access_token) ==
    Str("https://graph.facebook.com/v25.0/act_123/campaigns",
        <<Param("page_size", "10", "raw"), Param("access_token", meta_access_token, "raw")>>,
        "")

\* The HTTP-error envelope around the sanitized body of the answer.
ErrorEnvelope(status, error_payload, meta_access_token) ==
    Dict([error |->
            Dict([message |-> Plain("HTTP Error"),
                  details |-> _sanitize_response_payload(error_payload),
                  full_response |->
                      Dict([status_code |-> PyInt(status),
                            url |-> _sanitize_url(RequestUrl(meta_access_token)),
                            request_method |-> Plain("GET")])])])

\* make_api_request with a token, from the answer of Graph to the payload
\* it returns.
RequestPayload(meta_access_token, response) ==
    LET body == Instantiate(response.body, meta_access_token) IN
    CASE response.kind = "json" /\ response.status = 200 ->
            _sanitize_response_payload(body)
      [] response.kind = "text" /\ response.status = 200 ->
            Dict([text_response |-> body, status_code |-> PyInt(response.status)])
      [] response.kind = "json" /\ response.status # 200 ->
            ErrorEnvelope(response.status, body, meta_access_token)
      [] response.kind = "text" /\ response.status # 200 ->
            ErrorEnvelope(response.status,
                          Dict([status_code |-> PyInt(response.status), text |-> body]),
                          meta_access_token)
      [] response.kind = "exception" ->
            Dict([error |-> Dict([message |-> IF MentionsToken(body)
                                              THEN _sanitize_url(body) ELSE body])])

\* A tool is about to send a request with a token, and Graph is about to
\* answer it.
SendRequest ==
    /\ op.name = "none"
    /\ \E meta_access_token \in RequestTokens, response \in Responses :
          op' = [name |-> "request", meta_access_token |-> meta_access_token,
                 response |-> response]
    /\ UNCHANGED <<ret, calls, storeVars, serverVars, login, discovery, persist>>

ReturnPayload ==
    /\ op.name = "request"
    /\ ret' = RequestPayload(op.meta_access_token, op.response)
    /\ op' = [op EXCEPT !.name = "payload"]
    /\ UNCHANGED <<calls, storeVars, serverVars, login, discovery, persist>>

SanitizeNext ==
    \/ SendRequest
    \/ ReturnPayload

SanitizeSpec == DiscoveryInit /\ [][SanitizeNext]_vars


(***************************************************************************)
(* Properties of the returned payloads, checked under SanitizeSpec.        *)
(***************************************************************************)
IsTokenParam(pair) == pair.key \in {"access_token", "ACCESS_TOKEN"}

\* Some string of the value, at any depth, has an access_token parameter.
RECURSIVE HasTokenParam(_)
HasTokenParam(value) ==
    CASE value.t = "dict" -> \E key \in DOMAIN value.v : HasTokenParam(value.v[key])
      [] value.t = "list" -> \E i \in DOMAIN value.v : HasTokenParam(value.v[i])
      [] value.t = "str" -> \E i \in DOMAIN value.query : IsTokenParam(value.query[i])
      [] OTHER -> FALSE

\* The value with the access_token parameters left out of its strings and
\* every other parameter as its decoded key and value.
RECURSIVE OtherParams(_)
OtherParams(value) ==
    CASE value.t = "dict" ->
            [value EXCEPT !.v = [key \in DOMAIN value.v |-> OtherParams(value.v[key])]]
      [] value.t = "list" ->
            [value EXCEPT !.v = [i \in DOMAIN value.v |-> OtherParams(value.v[i])]]
      [] value.t = "str" ->
            LET others == SelectSeq(value.query, LAMBDA pair : ~IsTokenParam(pair)) IN
            [value EXCEPT !.query = [i \in DOMAIN others |->
                                        <<others[i].key, others[i].value>>]]
      [] OTHER -> value

\* The part of the returned payload that holds Graph's answer.
Reply ==
    CASE op.response.kind = "json" /\ op.response.status = 200 -> ret
      [] op.response.kind = "text" /\ op.response.status = 200 -> ret.v.text_response
      [] op.response.kind = "json" /\ op.response.status # 200 -> ret.v.error.v.details
      [] op.response.kind = "text" /\ op.response.status # 200 ->
            ret.v.error.v.details.v.text
      [] op.response.kind = "exception" -> ret.v.error.v.message

\* C20: a payload make_api_request returns holds no access_token query
\* parameter in any string at any depth, every other query parameter of
\* Graph's answer is still there, and the payload is the same whichever
\* token the request was made with.
C20_NoTokenInPayloads ==
    op.name = "payload"
    => /\ ~HasTokenParam(ret)
       /\ OtherParams(Reply) = OtherParams(op.response.body)
       /\ \A other \in RequestTokens : RequestPayload(other, op.response) = ret

\* A 2xx answer two levels deep held a URL with the token between two other
\* parameters; the payload holds the URL with the two other parameters.
C20_Witness ==
    /\ op.name = "payload"
    /\ op.response.kind = "json"
    /\ op.response.status = 200
    /\ op.response.body.t = "dict"
    /\ op.response.body.v.next.t = "list"
    /\ HasTokenParam(op.response.body)
    /\ Len(op.response.body.v.next.v[1].query) = 2
    /\ Len(ret.v.next.v[1].query) = 1
    /\ ret.v.next.v[1].query[1].key = "fields"



(***************************************************************************)
(* CallbackSpec: the callback server receiving more than one /callback     *)
(* request.                                                                *)
(*                                                                         *)
(* The actions are those of ServerSpec.  The listener handles its requests *)
(* one after the other; the shutdown a handler dispatches runs on a thread *)
(* of its own, so the loop may take the next request before that thread    *)
(* asks it to stop, and finishes a request it has taken.                   *)
(***************************************************************************)
CallbackNext ==
    \/ StartCallbackServer /\ UNCHANGED <<login, discovery, persist>>
    \/ \E l \in DOMAIN listeners : ListenerBind(l) /\ UNCHANGED <<login, discovery, persist>>
    \/ \E l \in DOMAIN listeners : ListenerBindFails(l) /\ UNCHANGED <<login, discovery, persist>>
    \/ \E l \in DOMAIN listeners : ListenerStop(l) /\ UNCHANGED <<login, discovery, persist>>
    \/ \E l \in DOMAIN listeners :
          HandleCallbackUpTo(l, MaxCallbacks) /\ UNCHANGED <<login, discovery, persist>>
    \/ \E l \in DOMAIN listeners : FinishCallback(l) /\ UNCHANGED <<login, discovery, persist>>
    \/ \E t \in DOMAIN timers : TimerFires(t) /\ UNCHANGED <<login, discovery, persist>>
    \/ \E origin \in {"caller", "timer", "handler"} :
          ShutdownAcquire(origin) /\ UNCHANGED <<login, discovery, persist>>
    \/ ShutdownStopped /\ UNCHANGED <<login, discovery, persist>>
    \/ ShutdownClear /\ UNCHANGED <<login, discovery, persist>>
    \/ ShutdownFinish /\ UNCHANGED <<login, discovery, persist>>

CallbackSpec == ServerInit /\ [][CallbackNext]_vars

(***************************************************************************)
(* Properties of CallbackState, checked under CallbackSpec.                *)
(***************************************************************************)
\* A step of start_callback_server or login() that resets the state.
IsReset == op'.name \in {"start_callback_server", "login"}

\* C21: the status moves forward only, from pending to exchanging to
\* success or error (a refused authorization goes from pending to error at
\* once); it never leaves success or error, and goes back to pending only
\* by the reset of a new login.
C21_StatusMonotonic ==
    [][(token_container'.status # token_container.status /\ ~IsReset)
       => \/ /\ token_container.status = "pending"
             /\ token_container'.status \in {"exchanging", "error"}
          \/ /\ token_container.status = "exchanging"
             /\ token_container'.status \in {"success", "error"}]_vars

\* Two /callback requests were handled by one server, and the exchange of
\* the first one had succeeded.
C21_Witness ==
    /\ requests = 2
    /\ op.name = "_handle_callback"
    /\ Truthy(token_container.token)



(***************************************************************************)
(* TeardownSpec: ServerSpec with the progress its threads make.            *)
(*                                                                         *)
(* A thread that can take a step takes it: the listener thread reaches its *)
(* bind, leaves its loop when asked to and returns from the token exchange *)
(* (an HTTP call with a timeout); a thread that waits for the lock gets it *)
(* once it is free often enough; a shutdown inside the lock goes on when   *)
(* what it waits for has happened.  The arrival of a /callback request, a  *)
(* call of start_callback_server or of shutdown_callback_server by the     *)
(* program, and the expiry of the watchdog are not forced.                 *)
(***************************************************************************)
ListenerStep ==
    \E l \in DOMAIN listeners :
        \/ ListenerBind(l)
        \/ ListenerBindFails(l)
        \/ ListenerStop(l)
        \/ FinishCallback(l)

TeardownFairness ==
    /\ WF_vars(ListenerStep /\ UNCHANGED <<login, discovery, persist>>)
    /\ SF_vars(ShutdownAcquire("timer") /\ UNCHANGED <<login, discovery, persist>>)
    /\ SF_vars(ShutdownAcquire("handler") /\ UNCHANGED <<login, discovery, persist>>)
    /\ WF_vars(ShutdownStopped /\ UNCHANGED <<login, discovery, persist>>)
    /\ WF_vars(ShutdownClear /\ UNCHANGED <<login, discovery, persist>>)
    /\ WF_vars(ShutdownFinish /\ UNCHANGED <<login, discovery, persist>>)

TeardownSpec == ServerInit /\ [][ServerNext]_vars /\ TeardownFairness

(***************************************************************************)
(* Properties of the teardown, checked under TeardownSpec.                 *)
(***************************************************************************)
\* A listener thread that has not ended.
Alive(l) == listeners[l].st \in {"starting", "serving", "handling"}

\* C22, termination: a shutdown that has taken the lock returns, and a
\* shutdown dispatched by a handler or started by the watchdog gets the
\* lock, whoever else calls start or shutdown meanwhile.
C22_TeardownTerminates ==
    /\ (shutdown_running.pc # "idle") ~> (shutdown_running.pc = "idle")
    /\ \A origin \in {"timer", "handler"} :
          (shutdown_waiting[origin] > 0) ~> (shutdown_waiting[origin] = 0)

\* C22, outcome: when a shutdown returns, whichever thread called it, no
\* listener thread is left alive and the thread, server and port handles
\* are cleared.
C22_TeardownStopsServer ==
    op.name = "shutdown_callback_server" =>
        /\ \A l \in DOMAIN listeners : ~Alive(l)
        /\ <<_callback_thread, _callback_httpd, _callback_port>> = <<0, 0, 0>>

\* The shutdown a handler dispatched after a callback has returned and the
\* server it stopped is gone.
C22_Witness ==
    /\ op.name = "shutdown_callback_server"
    /\ op.origin = "handler"
    /\ requests = 1
    /\ listeners # <<>>
    /\ \A l \in DOMAIN listeners : listeners[l].st = "exited" /\ ~listeners[l].bound
    /\ _callback_port = 0


(***************************************************************************)
(* Properties of the listener threads, checked under RestartSpec.          *)
(***************************************************************************)
AliveListeners == {l \in DOMAIN listeners : Alive(l)}

\* No shutdown is running and the thread, server and port handles are None.
HandlesCleared ==
    /\ shutdown_running.pc = "idle"
    /\ <<_callback_thread, _callback_httpd, _callback_port>> = <<0, 0, 0>>

\* C23: at every moment at most one listener thread is alive, and none is
\* alive once a shutdown has cleared the handles, however the starts, the
\* shutdowns and the watchdog interleave.
C23_SingleListener ==
    /\ Cardinality(AliveListeners) <= 1
    /\ HandlesCleared => AliveListeners = {}

\* The server was shut down and started again: the first listener thread
\* has ended and the second one is the only one alive, and serves.
C23_Witness ==
    /\ Len(listeners) = 2
    /\ listeners[1].st = "exited"
    /\ listeners[2].st = "serving"
    /\ _callback_httpd = 2
    /\ _callback_thread = 2



(***************************************************************************)
(* DuplicationSpec: the clone tools (duplication_tools.py).                *)
(*                                                                         *)
(* A clone tool is _forward_duplication_request inside meta_api_tool.  The *)
(* inputs are the resource type, the token argument, the outcome of the    *)
(* token lookup, whether the preflight blocks the campaign, and the answer *)
(* of Graph to the POST on the copy edge.  A JSON object is kept as a      *)
(* record of the entries the code reads; Absent is a missing entry.        *)
(***************************************************************************)
\* clone_campaign, clone_ad_set, clone_ad, clone_ad_creative
ResourceTypes == {"campaign", "adset", "ad", "creative"}

\* JSON true.
PyTrue == [t |-> "bool", v |-> TRUE]

\* The error object of a Graph answer: its code and its message.
GraphError(code, message) == [t |-> "dict", code |-> code, message |-> message]

\* error.code of the answers: rate limit, invalid parameter, permission, an
\* expired token, or no code.
CopyErrorCodes == {PyInt(4), PyInt(100), PyInt(200), PyInt(190), Absent}

CopyErrorMessages == {PyStr("Application request limit reached"),
                      PyStr("Provide valid app ID")}

\* The JSON bodies of the copy edge: the copy's id, a bare success flag, an
\* empty object, an error object, or an error that is a string.
CopyBodies ==
    {[error |-> Absent, id |-> PyStr("120"), success |-> Absent],
     [error |-> Absent, id |-> Absent, success |-> PyTrue],
     [error |-> Absent, id |-> Absent, success |-> Absent],
     [error |-> PyStr("Service unavailable"), id |-> Absent, success |-> Absent]}
    \cup {[error |-> GraphError(code, message), id |-> Absent, success |-> Absent] :
             code \in CopyErrorCodes, message \in CopyErrorMessages}

\* The answers to the POST: a JSON body with a 2xx or an error status, a
\* body that is not JSON, or an exception of the HTTP client.
CopyAnswers ==
    {[kind |-> "json", status |-> status, body |-> body] :
        status \in {200, 400}, body \in CopyBodies}
    \cup {[kind |-> "text", status |-> status] : status \in {200, 400}}
    \cup {[kind |-> "exception"]}

\* make_api_request on the copy edge: the payload it returns for an answer,
\* or Raised (error_obj.get on an error that is a string).
CopyPayload(answer) ==
    CASE answer.kind = "exception" ->
            [error |-> GraphError(Absent, PyStr("ConnectError")),
             id |-> Absent, success |-> Absent]
      [] answer.kind = "text" /\ answer.status = 200 ->
            [error |-> Absent, id |-> Absent, success |-> Absent]
      [] answer.kind = "text" /\ answer.status # 200 ->
            [error |-> [t |-> "dict", code |-> Absent, message |-> PyStr("HTTP Error"),
                        details |-> [error |-> Absent]],
             id |-> Absent, success |-> Absent]
      [] answer.kind = "json" /\ answer.status = 200 -> answer.body
      [] OTHER ->
            LET error_obj == answer.body.error IN
            IF error_obj.t = "str" THEN Raised
            ELSE IF /\ error_obj.t = "dict"
                    /\ error_obj.code = PyInt(200)
                    /\ error_obj.message = PyStr("Provide valid app ID")
            THEN [error |-> [t |-> "dict", code |-> PyInt(200),
                             message |-> PyStr("Meta API authentication configuration issue"),
                             original_error |-> error_obj.message],
                  id |-> Absent, success |-> Absent]
            ELSE [error |-> [t |-> "dict", code |-> Absent, message |-> PyStr("HTTP Error"),
                             details |-> answer.body],
                  id |-> Absent, success |-> Absent]

\* raise RateLimitError(...) or DuplicationError(...) with the error name
\* and the details.code of its JSON message.
ToolError(exc, error, code) == [t |-> "raise", exc |-> exc, error |-> error, code |-> code]

\* _forward_duplication_request with the token it found.
_forward_duplication_request(resource_type, facebook_token, blocked, answer) ==
    IF ~Truthy(facebook_token)
    THEN ToolError("DuplicationError", "authentication_required", Absent)
    ELSE IF blocked /\ resource_type # "creative"
    THEN ToolError("DuplicationError", "v25_blocked_operation", Absent)
    ELSE LET data == CopyPayload(answer) IN
         IF data = Raised
         THEN ToolError("DuplicationError", "unexpected_error", Absent)
         ELSE IF data.error.t = "dict"
         THEN LET graph_error == data.error
                  code == Get(graph_error.code, None)
              IN  IF code = PyInt(4)
                  THEN ToolError("RateLimitError", "rate_limit_exceeded", code)
                  ELSE ToolError("DuplicationError", "duplication_failed", code)
         ELSE JsonDumps([success |-> data.id # Absent \/ data.success = PyTrue,
                         new_id |-> Get(data.id, None),
                         resource_type |-> resource_type])

\* A clone tool as the host calls it: without a token the wrapper returns
\* the auth error payload; RateLimitError and DuplicationError are
\* McpToolErrors, which the wrapper raises again; the JSON text of a result
\* has no error entry and is returned as it is.
clone(resource_type, meta_access_token, lookup, blocked, answer) ==
    IF ~Truthy(meta_access_token) /\ ~Truthy(lookup)
    THEN _auth_error_payload
    ELSE _forward_duplication_request(resource_type, PyOr(meta_access_token, lookup),
                                      blocked, answer)

\* A host is about to call a clone tool.
CallClone ==
    /\ op.name = "none"
    /\ \E resource_type \in ResourceTypes,
          meta_access_token \in {Absent, PyStr(EnvTok)},
          lookup \in {None, PyStr(LongTok)},
          blocked \in BOOLEAN,
          answer \in CopyAnswers :
          op' = [name |-> "call", resource_type |-> resource_type,
                 meta_access_token |-> meta_access_token, lookup |-> lookup,
                 blocked |-> blocked, answer |-> answer]
    /\ UNCHANGED <<ret, calls, storeVars, serverVars, login, discovery, persist>>

Clone ==
    /\ op.name = "call"
    /\ ret' = clone(op.resource_type, op.meta_access_token, op.lookup, op.blocked,
                    op.answer)
    /\ calls' = IF Truthy(op.meta_access_token) THEN <<>>
                ELSE <<Call("get_current_access_token", op.lookup)>>
    /\ op' = [op EXCEPT !.name = "clone"]
    /\ UNCHANGED <<storeVars, serverVars, login, discovery, persist>>

DuplicationNext ==
    \/ CallClone
    \/ Clone

DuplicationSpec == DiscoveryInit /\ [][DuplicationNext]_vars

(***************************************************************************)
(* Properties of the clone tools, checked under DuplicationSpec.           *)
(***************************************************************************)
\* The copy edge was asked and answered with a Graph error object.
CopyEdgeFailed ==
    /\ op.name = "clone"
    /\ Truthy(op.meta_access_token) \/ Truthy(op.lookup)
    /\ ~(op.blocked /\ op.resource_type # "creative")
    /\ op.answer.kind = "json"
    /\ op.answer.body.error.t = "dict"

\* C24: when the copy edge answers with the Graph error code 4 the clone
\* tool raises RateLimitError; on any other Graph error it raises
\* DuplicationError with the code of that error.
C24_RateLimitRaised ==
    CopyEdgeFailed =>
        LET code == op.answer.body.error.code IN
        IF code = PyInt(4)
        THEN ret.t = "raise" /\ ret.exc = "RateLimitError"
        ELSE ret.t = "raise" /\ ret.exc = "DuplicationError" /\ ret.code = Get(code, None)

\* The same for the answers that carry the error with a 2xx status, the
\* only ones whose error object reaches the tool unwrapped.
C24_RateLimitRaisedOn2xx ==
    (CopyEdgeFailed /\ op.answer.status = 200) =>
        LET code == op.answer.body.error.code IN
        IF code = PyInt(4)
        THEN ret.t = "raise" /\ ret.exc = "RateLimitError"
        ELSE ret.t = "raise" /\ ret.exc = "DuplicationError" /\ ret.code = Get(code, None)

\* A clone of an ad set was answered with a 2xx body whose error has code 4,
\* and RateLimitError left the tool.
C24_Witness ==
    /\ CopyEdgeFailed
    /\ op.resource_type = "adset"
    /\ op.answer.status = 200
    /\ op.answer.body.error.code = PyInt(4)
    /\ ret = ToolError("RateLimitError", "rate_limit_exceeded", PyInt(4))


(***************************************************************************)
(* Properties of the fields of CallbackState, checked under CallbackSpec.  *)
(***************************************************************************)
\* What one pass of login()'s polling loop makes of the state: it tests the
\* token first, then the error.
PollVerdict ==
    IF Truthy(token_container.token) THEN "Authentication successful"
    ELSE IF Truthy(token_container.error) THEN "Authentication failed"
    ELSE "waiting"

\* No handler is in the middle of a request.
HandlersReturned == \A l \in DOMAIN listeners : listeners[l].st # "handling"

\* C25: between /callback requests the token is set exactly when the status
\* is success and the error is set exactly when the status is error, so
\* login() does not report a success while the status is error.
C25_FieldsMatchStatus ==
    HandlersReturned =>
        /\ Truthy(token_container.token) <=> token_container.status = "success"
        /\ Truthy(token_container.error) <=> token_container.status = "error"
        /\ PollVerdict = "Authentication successful" => token_container.status # "error"

\* The one request of a login attempt was exchanged for a token: the status
\* is success, the token is set, the error is not.
C25_Witness ==
    /\ op.name = "_handle_callback"
    /\ requests = 1
    /\ HandlersReturned
    /\ token_container.status = "success"
    /\ token_container.token = PyStr(LongTok)
    /\ token_container.error = None
    /\ PollVerdict = "Authentication successful"


(***************************************************************************)
(* Properties of a start while the server runs, checked under ServerSpec.  *)
(***************************************************************************)
\* C26: a call of start_callback_server while a server is running leaves
\* CallbackState as it was; a success or an error the handler has recorded
\* is not erased.
C26_StartKeepsCallbackState ==
    [][(op'.name = "start_callback_server" /\ _callback_port # 0)
       => token_container' = token_container]_vars

\* start_callback_server was called again while the server was running and
\* after its handler had recorded the result of a /callback request.
C26_Witness ==
    /\ op.name = "start_callback_server"
    /\ hist.starts = 2
    /\ ret = PyInt(_callback_port)
    /\ requests = 1
    /\ HandlersReturned


\* start_callback_server has returned a port and no shutdown has begun.
PortRecorded == _callback_port # 0 /\ shutdown_running.pc = "idle"

\* C27: while a port is recorded and no shutdown has begun, the thread
\* handle names a listener thread for that port that serves on it or is
\* about to bind it: the handles never describe a listener whose bind
\* failed or that has ended.
C27_RecordedPortIsServed ==
    PortRecorded =>
        /\ _callback_thread # 0
        /\ listeners[_callback_thread].port = _callback_port
        /\ Alive(_callback_thread)

\* The listener thread of the recorded port has bound it and serves, and
\* the server handle names it.
C27_Witness ==
    /\ PortRecorded
    /\ _callback_thread # 0
    /\ _callback_httpd = _callback_thread
    /\ listeners[_callback_thread].st = "serving"
    /\ listeners[_callback_thread].bound
    /\ listeners[_callback_thread].port = _callback_port


(***************************************************************************)
(* Properties of the redirect URI, checked under LoginSpec.                *)
(***************************************************************************)
\* The default of the exchange when it is given no redirect URI.
AUTH_REDIRECT_URI == RedirectUri(8888)

\* auth_manager.redirect_uri as login() sets it, which get_auth_url puts
\* into the authorization URL.
AuthUrlRedirectUri == RedirectUri(login.port)

\* The redirect_uri parameter of the authorization-code exchange the
\* handler starts: token_container's, or the default when that is None.
ExchangeRedirectUri ==
    IF token_container.redirect_uri = None THEN AUTH_REDIRECT_URI
    ELSE token_container.redirect_uri

\* The handler has just started the exchange of a code that came in after
\* login() opened the authorization URL.
ExchangeStarted ==
    /\ op.name = "_handle_callback"
    /\ token_container.status = "exchanging"
    /\ login.deadline # 0

\* C28: the redirect_uri sent in the authorization-code exchange is the one
\* of the authorization URL login() opened, and its port is the port of the
\* listener that took the request.
C28_RedirectUriConsistent ==
    ExchangeStarted =>
        /\ ExchangeRedirectUri = AuthUrlRedirectUri
        /\ \E l \in DOMAIN listeners :
              /\ listeners[l].st = "handling"
              /\ listeners[l].port = ExchangeRedirectUri.port

\* An exchange was started on the second port of the range, the first one
\* being taken by another program.
C28_Witness ==
    /\ ExchangeStarted
    /\ login.port = StartPort + 1
    /\ ExchangeRedirectUri = RedirectUri(StartPort + 1)

(***************************************************************************)
(* PersistSpec: the token store under two threads.  The callback thread    *)
(* runs _store_token(final_token, persist_token=True) at the end of a      *)
(* successful complete_oauth_from_auth_code; a tool call on the event loop *)
(* runs invalidate_token.  Neither takes a lock, so each statement is a    *)
(* step of its own and the steps of the two interleave freely.             *)
(***************************************************************************)
\* The tokens a successful completion can hand to _store_token.
FinalTokens ==
    { complete_oauth_from_auth_code(TRUE, short_resp, long_resp).ret.token_info :
        short_resp \in { r \in CoreResponses(ShortTok) :
                           exchange_code_for_short_lived(r) # None },
        long_resp \in CoreResponses(LongTok) }

\* _store_token, line 198: auth_manager.token_info = token_info.
StoreAssign ==
    /\ persist.store = "idle"
    /\ persist.stores < MaxStores
    /\ \E final_token \in FinalTokens :
          /\ token_info' = final_token
          /\ persist' = [persist EXCEPT !.store = "assigned", !.token = final_token,
                                        !.stores = @ + 1]
    /\ op' = [name |-> "store_assign"]
    /\ ret' = None
    /\ UNCHANGED <<proc, now, cache_file, needs_authentication, envVars, calls,
                   auth_error_seen, serverVars, login, discovery>>

\* _persist_token, line 153: if not self.token_info: return.
PersistCheck ==
    /\ persist.store = "assigned"
    /\ persist' = [persist EXCEPT !.store = IF token_info = None THEN "flag"
                                            ELSE "checked"]
    /\ op' = [name |-> "persist_check"]
    /\ ret' = None
    /\ UNCHANGED <<storeVars, calls, serverVars, login, discovery>>

\* _persist_token, lines 155-156: the path is made, then self.token_info is
\* read again and serialized; None has no serialize, and the AttributeError
\* leaves _store_token before its last line.
PersistSerialize ==
    /\ persist.store = "checked"
    /\ IF token_info = None
       THEN /\ persist' = [persist EXCEPT !.store = "idle", !.raised = TRUE]
            /\ ret' = RaisedError("AttributeError")
       ELSE /\ persist' = [persist EXCEPT !.store = "serialized",
                                          !.text = serialize(token_info)]
            /\ ret' = None
    /\ op' = [name |-> "persist_serialize"]
    /\ UNCHANGED <<storeVars, calls, serverVars, login, discovery>>

\* _persist_token, line 156: path.write_text of the text made.
PersistWrite ==
    /\ persist.store = "serialized"
    /\ cache_file' = persist.text
    /\ persist' = [persist EXCEPT !.store = "flag", !.text = None]
    /\ op' = [name |-> "persist_write"]
    /\ ret' = None
    /\ UNCHANGED <<proc, now, token_info, needs_authentication, envVars, calls,
                   auth_error_seen, serverVars, login, discovery>>

\* _store_token, line 201: needs_authentication = False.
StoreFlag ==
    /\ persist.store = "flag"
    /\ needs_authentication' = FALSE
    /\ persist' = [persist EXCEPT !.store = "idle"]
    /\ op' = [name |-> "_store_token"]
    /\ ret' = None
    /\ UNCHANGED <<proc, now, token_info, cache_file, envVars, calls,
                   auth_error_seen, serverVars, login, discovery>>

\* invalidate_token, line 187: self.token_info = None.
InvalidateClear ==
    /\ persist.invalidate = "idle"
    /\ persist.invalidations < MaxInvalidations
    /\ token_info' = None
    /\ persist' = [persist EXCEPT !.invalidate = "cleared", !.invalidations = @ + 1]
    /\ op' = [name |-> "invalidate_clear"]
    /\ ret' = None
    /\ UNCHANGED <<proc, now, cache_file, needs_authentication, envVars, calls,
                   auth_error_seen, serverVars, login, discovery>>

\* invalidate_token, line 188: needs_authentication = True.
InvalidateFlag ==
    /\ persist.invalidate = "cleared"
    /\ needs_authentication' = TRUE
    /\ persist' = [persist EXCEPT !.invalidate = "flagged"]
    /\ op' = [name |-> "invalidate_flag"]
    /\ ret' = None
    /\ UNCHANGED <<proc, now, token_info, cache_file, envVars, calls,
                   auth_error_seen, serverVars, login, discovery>>

\* invalidate_token, line 189: self._cache_path().unlink(missing_ok=True).
InvalidateUnlink ==
    /\ persist.invalidate = "flagged"
    /\ cache_file' = Absent
    /\ persist' = [persist EXCEPT !.invalidate = "idle"]
    /\ op' = [name |-> "invalidate_token"]
    /\ ret' = None
    /\ UNCHANGED <<proc, now, token_info, needs_authentication, envVars, calls,
                   auth_error_seen, serverVars, login, discovery>>

PersistNext ==
    \/ StoreAssign
    \/ PersistCheck
    \/ PersistSerialize
    \/ PersistWrite
    \/ StoreFlag
    \/ InvalidateClear
    \/ InvalidateFlag
    \/ InvalidateUnlink

PersistSpec == DiscoveryInit /\ [][PersistNext]_vars

\* Every _store_token and invalidate_token started has returned, none of them
\* by an exception.
StoreQuiescent ==
    /\ persist.store = "idle"
    /\ persist.invalidate = "idle"
    /\ ~persist.raised

\* C29: once the completions (persist_token true) and the invalidations have
\* returned, however their statements interleaved, the token cache file
\* exists exactly when the auth manager holds a token, and then the file is
\* that token serialized.
C29_CacheMatchesMemory ==
    StoreQuiescent =>
        /\ (cache_file # Absent) <=> (token_info # None)
        /\ token_info # None => cache_file = serialize(token_info)

\* A completion and an invalidation have both returned, their statements
\* having overlapped: the completion had serialized its token before the
\* invalidation started and wrote the file after the invalidation's unlink.
C29_Witness ==
    /\ StoreQuiescent
    /\ op.name = "_store_token"
    /\ persist.stores = 1
    /\ persist.invalidations = 1
    /\ token_info = None
    /\ cache_file # Absent

(***************************************************************************)
(* RequestSpec: the way of a token to a Graph request.  A tool is called   *)
(* through meta_api_tool's wrapper, which takes the token of the call or   *)
(* looks one up, and the tool body hands it to make_api_request; or        *)
(* make_api_request is called directly.  The HTTP requests sent are kept   *)
(* in calls, each with its access_token parameter.                         *)
(***************************************************************************)
\* The request httpx sends, by the access_token _normalize_request_params
\* put into it.
HttpRequest(access_token) == [fn |-> "httpx", access_token |-> access_token]

\* A make_api_request that sends its request whatever the token is.
RequestsUnchecked(meta_access_token, resp) ==
    [ret |-> PyStr(make_api_request(meta_access_token, resp)),
     http |-> <<HttpRequest(meta_access_token)>>,
     invalidates |-> RequestInvalidates(meta_access_token, resp)]

\* make_api_request: the message of its envelope, the HTTP requests it
\* sent, and whether it invalidated the token.
MakeApiRequestOutcome(meta_access_token, resp) ==
    [ret |-> PyStr(make_api_request(meta_access_token, resp)),
     http |-> IF meta_access_token = "" THEN <<>>
              ELSE <<HttpRequest(meta_access_token)>>,
     invalidates |-> RequestInvalidates(meta_access_token, resp)]

\* The text of a token argument; None and a missing argument are as falsy
\* as "".
TokenText(token) == IF Truthy(token) THEN token.v ELSE ""

\* The meta_access_token a host passes to a tool.
ToolTokens == {Absent, PyStr(""), PyStr(EnvTok), PyStr(TinyTok)}

\* The token store as invalidate_token leaves it, or as it is.
StoreAfter(invalidates) ==
    IF invalidates THEN invalidate_token
    ELSE [token_info |-> token_info,
          needs_authentication |-> needs_authentication,
          cache_file |-> cache_file]

\* make_api_request called with a token or with none.
GraphRequest ==
    /\ proc = "up"
    /\ \E meta_access_token \in ToolTokens, resp \in GraphResponses :
          LET request == MakeApiRequestOutcome(TokenText(meta_access_token), resp)
              left == StoreAfter(request.invalidates)
          IN  /\ op' = [name |-> "make_api_request", resp |-> resp,
                        meta_access_token |-> TokenText(meta_access_token)]
              /\ ret' = request.ret
              /\ calls' = request.http \o
                          (IF request.invalidates
                           THEN <<Call("invalidate_token", None)>> ELSE <<>>)
              /\ token_info' = left.token_info
              /\ needs_authentication' = left.needs_authentication
              /\ cache_file' = left.cache_file
              /\ auth_error_seen' =
                    (auth_error_seen \/ (request.http # <<>> /\ CarriesAuthError(resp)))
    /\ UNCHANGED <<proc, now, envVars, serverVars>>

\* A wrapped tool is called: the wrapper looks the token up when the call
\* brought none, and the tool body, when it is run, makes one Graph request
\* with kwargs["meta_access_token"] and returns the envelope it got.
WrappedTool ==
    /\ proc = "up"
    /\ \E meta_access_token \in ToolTokens, resp \in GraphResponses :
          LET looked == ~Truthy(meta_access_token)
              got == get_current_access_token
              token == IF looked THEN got.ret ELSE meta_access_token
              body_ran == Truthy(token)
              request == MakeApiRequestOutcome(TokenText(token), resp)
              result == [t |-> "dict", serializable |-> TRUE, message |-> request.ret]
              left == StoreAfter((looked /\ got.invalidates)
                                 \/ (body_ran /\ request.invalidates))
          IN  /\ op' = [name |-> "tool", resp |-> resp,
                        meta_access_token |-> meta_access_token,
                        lookup |-> IF looked THEN got.ret ELSE Absent,
                        body_ran |-> body_ran]
              /\ ret' = meta_api_tool(meta_access_token, got.ret, result)
              /\ calls' = (IF looked
                           THEN <<Call("get_current_access_token", got.ret)>>
                           ELSE <<>>)
                          \o (IF looked /\ got.invalidates
                              THEN <<Call("invalidate_token", None)>> ELSE <<>>)
                          \o (IF body_ran THEN request.http ELSE <<>>)
                          \o (IF body_ran /\ request.invalidates
                              THEN <<Call("invalidate_token", None)>> ELSE <<>>)
              /\ token_info' = left.token_info
              /\ needs_authentication' = left.needs_authentication
              /\ cache_file' = left.cache_file
              /\ auth_error_seen' =
                    (auth_error_seen \/ (body_ran /\ CarriesAuthError(resp)))
    /\ UNCHANGED <<proc, now, envVars, serverVars>>

RequestNext ==
    \/ Construct /\ UNCHANGED <<login, discovery, persist>>
    \/ Tick /\ UNCHANGED <<login, discovery, persist>>
    \/ CompleteOAuth /\ UNCHANGED <<login, discovery, persist>>
    \/ ClearToken /\ UNCHANGED <<login, discovery, persist>>
    \/ GraphRequest /\ UNCHANGED <<login, discovery, persist>>
    \/ WrappedTool /\ UNCHANGED <<login, discovery, persist>>

RequestSpec == Init /\ [][RequestNext]_vars

\* The HTTP requests the last operation sent.
HttpRequests == { i \in DOMAIN calls : calls[i].fn = "httpx" }

\* C30: no Graph request goes out with an empty access token.
\* make_api_request called with an empty token returns the Authentication
\* Required envelope and sends nothing; a wrapped tool called without a
\* token, for which get_current_access_token finds none either, returns the
\* auth error payload, its body not run and nothing sent.
C30_NoRequestWithoutToken ==
    /\ \A i \in HttpRequests : calls[i].access_token # ""
    /\ (op.name = "make_api_request" /\ op.meta_access_token = "")
       => (ret = PyStr("Authentication Required") /\ HttpRequests = {})
    /\ (op.name = "make_api_request" /\ op.meta_access_token # "")
       => HttpRequests # {}
    /\ (op.name = "tool" /\ ~Truthy(op.meta_access_token) /\ ~Truthy(op.lookup))
       => (ret = _auth_error_payload /\ ~op.body_ran /\ HttpRequests = {})
    /\ (op.name = "tool" /\ op.body_ran)
       => \E i \in HttpRequests :
             calls[i].access_token = IF Truthy(op.meta_access_token)
                                     THEN op.meta_access_token.v
                                     ELSE op.lookup.v

\* A tool was called with an empty token while the only token around was a
\* malformed META_ACCESS_TOKEN: the lookup found none and the tool returned
\* the auth error payload.
C30_Witness ==
    /\ op.name = "tool"
    /\ op.meta_access_token = PyStr("")
    /\ META_ACCESS_TOKEN = TinyTok
    /\ op.lookup = None
    /\ ret = _auth_error_payload
    /\ calls = <<Call("get_current_access_token", None)>>

====
